---- MODULE Spec2Model ----
(***************************************************************************)
(* A model of the Java upgrade extension: the 'java.upgrade.start' command *)
(* handler and executeUpgrade (extension.ts), OpenRewriteService,          *)
(* DependencyManager, ProjectAnalyzer, UpgradePlanGenerator,               *)
(* DependencyResolver and ProgressManager.                                 *)
(*                                                                         *)
(* Strings whose characters matter (version strings) are sequences of      *)
(* one-character strings; Str joins them into a TLA+ string.  An           *)
(* asynchronous call is two steps: the call (the operation is in flight)   *)
(* and its settlement.  Several invocations of the command handler         *)
(* interleave at their await points, as on the extension host's single     *)
(* thread.                                                                 *)
(***************************************************************************)
EXTENDS Integers, Sequences, FiniteSets, TLC

(***************************************************************************)
(* Bounds of the model.                                                    *)
(***************************************************************************)
\* invocations of the start command that may overlap
NumRuns == 2

\* the longest version string given to the planner
MaxVersionLength == 3
\* the longest dependency list given to the planner and to the resolver
MaxDeps == 2
\* the longest Spring Boot version string made of version characters
MaxSpringLength == 4
\* the most steps a ProgressManager is initialized with
MaxSteps == 2

Runs == 1..NumRuns

(***************************************************************************)
(* Values.                                                                 *)
(***************************************************************************)
\* JavaScript's undefined and null where a string (a sequence of characters) is
\* expected: sequences that no string of characters equals
Undefined == <<"undefined">>
Null == <<"null">>
\* no error is propagating
NoError == [raised |-> FALSE, isError |-> FALSE, message |-> ""]

\* new Error(message)
Err(message) == [raised |-> TRUE, isError |-> TRUE, message |-> message]

\* The join of a sequence of one-character strings.
RECURSIVE Str(_)
Str(chars) == IF chars = <<>> THEN "" ELSE Head(chars) \o Str(Tail(chars))

\* a result of a call that may throw
Ok(value) == [ok |-> TRUE, value |-> value, error |-> NoError]
Throw(error) == [ok |-> FALSE, value |-> Undefined, error |-> error]

(***************************************************************************)
(* JavaScript string and number primitives used by the planner.            *)
(***************************************************************************)
\* JavaScript numbers: an integer or NaN
Num(n) == [nan |-> FALSE, val |-> n]
NaN == [nan |-> TRUE, val |-> 0]
Digits == <<"0", "1", "2", "3", "4", "5", "6", "7", "8", "9">>
IsDigit(c) == \E i \in 1..Len(Digits) : Digits[i] = c
DigitValue(c) == (CHOOSE i \in 1..Len(Digits) : Digits[i] = c) - 1

\* a < b on JavaScript numbers: false as soon as one side is NaN
Less(a, b) == ~a.nan /\ ~b.nan /\ a.val < b.val
\* a > b on JavaScript numbers
Greater(a, b) == ~a.nan /\ ~b.nan /\ a.val > b.val

\* the index of the first c in chars, or Len(chars) + 1
RECURSIVE IndexOf(_, _, _)
IndexOf(chars, c, from) ==
    IF from > Len(chars) THEN Len(chars) + 1
    ELSE IF chars[from] = c THEN from
    ELSE IndexOf(chars, c, from + 1)

\* chars.split(c): the sequence of the segments between the separators
RECURSIVE Split(_, _)
Split(chars, c) ==
    LET i == IndexOf(chars, c, 1)
    IN  IF i > Len(chars) THEN <<chars>>
        ELSE <<SubSeq(chars, 1, i - 1)>> \o Split(SubSeq(chars, i + 1, Len(chars)), c)

\* segments.join(c)
RECURSIVE Join(_, _)
Join(segments, c) ==
    IF segments = <<>> THEN <<>>
    ELSE IF Len(segments) = 1 THEN segments[1]
    ELSE segments[1] \o <<c>> \o Join(Tail(segments), c)

\* segments.slice(0, n): the first n segments, or all of them when there are fewer
Slice(segments, n) ==
    SubSeq(segments, 1, IF n < Len(segments) THEN n ELSE Len(segments))

\* the value of the longest prefix of decimal digits of chars, after acc
RECURSIVE DigitRun(_, _, _)
DigitRun(chars, acc, seen) ==
    IF chars # <<>> /\ IsDigit(Head(chars))
    THEN DigitRun(Tail(chars), 10 * acc + DigitValue(Head(chars)), TRUE)
    ELSE IF seen THEN Num(acc) ELSE NaN

\* chars without its leading white space
RECURSIVE TrimStart(_)
TrimStart(chars) ==
    IF chars # <<>> /\ Head(chars) = " " THEN TrimStart(Tail(chars)) ELSE chars

\* parseInt(chars): white space, an optional sign, then decimal digits up to the
\* first other character; NaN when there is no digit
ParseInt(chars) ==
    LET t == TrimStart(chars)
        neg == t # <<>> /\ Head(t) = "-"
        signed == t # <<>> /\ Head(t) \in {"-", "+"}
        n == DigitRun(IF signed THEN Tail(t) ELSE t, 0, FALSE)
    IN  IF n.nan THEN NaN ELSE IF neg THEN Num(0 - n.val) ELSE n

(***************************************************************************)
(* UpgradePlanGenerator (services/upgradePlanGenerator.ts).                *)
(***************************************************************************)
\* what a template literal shows for a promise that was not awaited
PromiseToString == "[object Promise]"

Java11 == <<"1", "1">>
Java17 == <<"1", "7">>
Java21 == <<"2", "1">>

\* determineTargetJavaVersion with the second threshold off by one (<= 17)
determineTargetJavaVersionOffByOne(currentVersion) ==
    LET majorVersion == ParseInt(Split(currentVersion, ".")[1])
    IN  IF Less(majorVersion, Num(11)) THEN Java11
        ELSE IF Less(majorVersion, Num(18)) THEN Java17
        ELSE IF Less(majorVersion, Num(21)) THEN Java21
        ELSE currentVersion

determineTargetJavaVersion(currentVersion) ==
    LET majorVersion == ParseInt(Split(currentVersion, ".")[1])
    IN  IF Less(majorVersion, Num(11)) THEN Java11
        ELSE IF Less(majorVersion, Num(17)) THEN Java17
        ELSE IF Less(majorVersion, Num(21)) THEN Java21
        ELSE currentVersion

SpringFallback == <<"3", ".", "2", ".", "0">>
Spring2718 == <<"2", ".", "7", ".", "1", "8">>

\* versionMap: the keys with their values
versionMap ==
    [k \in {"1.5", "2.0", "2.1", "2.2", "2.3", "2.4", "2.5", "2.6", "2.7"} |->
        IF k = "2.7" THEN SpringFallback ELSE Spring2718]

\* the property names every object literal inherits from Object.prototype
ObjectPrototypeKeys ==
    {"constructor", "toString", "toLocaleString", "valueOf", "hasOwnProperty",
     "isPrototypeOf", "propertyIsEnumerable", "__proto__", "__defineGetter__",
     "__defineSetter__", "__lookupGetter__", "__lookupSetter__"}

\* the value of an inherited property: a function or an object, never a string
Inherited(key) == <<"Object.prototype." \o key>>

\* versionMap[key]: an own property, an inherited one, or undefined
GetProperty(key) ==
    IF key \in DOMAIN versionMap THEN versionMap[key]
    ELSE IF key \in ObjectPrototypeKeys THEN Inherited(key)
    ELSE Undefined

determineSpringBootVersion(currentVersion) ==
    IF currentVersion = Undefined \/ currentVersion = <<>> THEN Undefined
    ELSE LET segments == Split(currentVersion, ".")
             majorMinor == Str(Join(Slice(segments, 2), "."))
             found == GetProperty(majorMinor)
         IN  IF found # Undefined /\ found # <<>> THEN found ELSE SpringFallback

JavaUpgradePrefix == "org.openrewrite.java.migrate.UpgradeToJava"
SpringBootRecipe == "org.openrewrite.java.spring.boot3.UpgradeSpringBoot_3_2"
JavaModernizerRecipe == "org.openrewrite.java.migrate.JavaModernizer"
UpgradeJavaVersionRecipe == "org.openrewrite.java.migrate.UpgradeJavaVersion"

\* if (projectInfo.springBootVersion)
springBootDetected(projectInfo) ==
    projectInfo.springBootVersion # Undefined /\ projectInfo.springBootVersion # <<>>

\* determineOpenRewriteRecipes with the framework recipe pushed last
determineOpenRewriteRecipesSpringLast(projectInfo) ==
    <<JavaUpgradePrefix \o PromiseToString>>
    \o <<JavaModernizerRecipe, UpgradeJavaVersionRecipe>>
    \o (IF springBootDetected(projectInfo) THEN <<SpringBootRecipe>> ELSE <<>>)

\* The target version is interpolated without await: the template shows the promise.
determineOpenRewriteRecipes(projectInfo) ==
    <<JavaUpgradePrefix \o PromiseToString>>
    \o (IF springBootDetected(projectInfo) THEN <<SpringBootRecipe>> ELSE <<>>)
    \o <<JavaModernizerRecipe, UpgradeJavaVersionRecipe>>

\* a findLatestVersion that finds a version for every dependency
findLatestVersionResolving(dependency) == <<"3", ".", "0">>

\* UpgradePlanGenerator.findLatestVersion: the stub reports no version
findLatestVersion(dependency) == Null

\* needsUpdate without the test that a latest version was found
needsUpdateUnchecked(latestVersion, dep) == latestVersion # dep.version

\* if (latestVersion && latestVersion !== dep.version)
needsUpdate(latestVersion, dep) ==
    latestVersion # Null /\ latestVersion # <<>> /\ latestVersion # dep.version

RECURSIVE determineDependencyUpdates(_)
determineDependencyUpdates(dependencies) ==
    IF dependencies = <<>> THEN <<>>
    ELSE LET dep == Head(dependencies)
             latestVersion == findLatestVersion(dep)
         IN  (IF needsUpdate(latestVersion, dep)
              THEN <<[groupId |-> dep.groupId, artifactId |-> dep.artifactId,
                      fromVersion |-> dep.version, toVersion |-> latestVersion]>>
              ELSE <<>>)
             \o determineDependencyUpdates(Tail(dependencies))

generatePlan(projectInfo) ==
    [javaVersion |-> determineTargetJavaVersion(projectInfo.currentJavaVersion),
     springBootVersion |-> determineSpringBootVersion(projectInfo.springBootVersion),
     recipes |-> determineOpenRewriteRecipes(projectInfo),
     dependencyUpdates |-> determineDependencyUpdates(projectInfo.dependencies)]

(***************************************************************************)
(* DependencyResolver (the resolver with resolveLatestVersion and          *)
(* suggestUpdates).  A reply is what the registry query of one dependency  *)
(* gives: a failure, or the list of the versions of the documents found.   *)
(***************************************************************************)
\* a findBestVersion that takes the last version of the list
findBestVersionLast(versions) ==
    IF versions = <<>> \/ versions[Len(versions)] = <<>> THEN Null
    ELSE versions[Len(versions)]

\* a resolveLatestVersion that lets the error of the query through
resolveLatestVersionRethrow(reply) ==
    IF reply.ok
    THEN (IF reply.docs = <<>> \/ reply.docs[1] = <<>> THEN Null ELSE reply.docs[1])
    ELSE <<"Error">>

\* findBestVersion: versions[0] || null
findBestVersion(versions) ==
    IF versions = <<>> \/ versions[1] = <<>> THEN Null ELSE versions[1]

\* resolveLatestVersion: the best version of the reply, null when the query throws
resolveLatestVersion(reply) ==
    IF reply.ok THEN findBestVersion(reply.docs) ELSE Null

\* parseVersion: [major = 0, minor = 0, patch = 0] of the parsed segments
parseVersion(version) ==
    LET parts == Split(version, ".")
        at(i) == IF i <= Len(parts) THEN ParseInt(parts[i]) ELSE Num(0)
    IN  [major |-> at(1), minor |-> at(2), patch |-> at(3)]

determineUpdateType(currentVersion, newVersion) ==
    LET current == parseVersion(currentVersion)
        next == parseVersion(newVersion)
    IN  IF Greater(next.major, current.major) THEN "major"
        ELSE IF Greater(next.minor, current.minor) THEN "minor"
        ELSE "patch"

\* if (latestVersion && latestVersion !== dep.version)
suggestsUpdate(latestVersion, dep) ==
    latestVersion # Null /\ latestVersion # <<>> /\ latestVersion # dep.version

\* suggestUpdates: replies[i] answers the query made for dependencies[i]
RECURSIVE suggestUpdates(_, _)
suggestUpdates(dependencies, replies) ==
    IF dependencies = <<>> THEN <<>>
    ELSE LET dep == Head(dependencies)
             latestVersion == resolveLatestVersion(Head(replies))
         IN  (IF suggestsUpdate(latestVersion, dep)
              THEN <<[dependency |-> dep, suggestedVersion |-> latestVersion,
                      updateType |-> determineUpdateType(dep.version, latestVersion)]>>
              ELSE <<>>)
             \o suggestUpdates(Tail(dependencies), Tail(replies))

\* fetchAvailableVersions: the registry is queried with the dependency's groupId
\* and artifactId; the reply is a failure or the versions of the documents found
fetchAvailableVersions(registry, dependency) ==
    registry[<<dependency.groupId, dependency.artifactId>>]

\* checkConflicts, first loop: the Map from groupId:artifactId to the Set of the
\* versions, keys and versions in the order of their insertion
RECURSIVE buildVersionMap(_, _)
buildVersionMap(entries, dependencies) ==
    IF dependencies = <<>> THEN entries
    ELSE LET dep == Head(dependencies)
             key == <<dep.groupId, dep.artifactId>>
             has(entry) == entry.key = key
             i == IF \E k \in 1..Len(entries) : has(entries[k])
                  THEN CHOOSE k \in 1..Len(entries) : has(entries[k]) ELSE 0
             added(versions) ==
                 IF \E k \in 1..Len(versions) : versions[k] = dep.version
                 THEN versions ELSE Append(versions, dep.version)
         IN  buildVersionMap(
                 IF i = 0 THEN Append(entries, [key |-> key, versions |-> <<dep.version>>])
                 ELSE [entries EXCEPT ![i].versions = added(@)],
                 Tail(dependencies))

\* checkConflicts, body of the second loop, for the entries it is given
RECURSIVE findConflicts(_)
findConflicts(entries) ==
    IF entries = <<>> THEN <<>>
    ELSE (IF Len(Head(entries).versions) > 1
          THEN <<[groupId |-> Head(entries).key[1], artifactId |-> Head(entries).key[2],
                  versions |-> Head(entries).versions]>>
          ELSE <<>>)
         \o findConflicts(Tail(entries))

\* how the compiler emits a for-of loop: as an indexed loop (targets before
\* ES2015) or as an iteration (ES2015 and later)
CompilerTargets == {"indexed", "iterator"}

\* checkConflicts: the second loop is over versionMap.entries, the method itself
\* and not what it returns.  An indexed loop runs to the method's length, which is
\* 0; an iteration of something that is not iterable is a TypeError.
checkConflicts(dependencies, target) ==
    LET conflictMap == buildVersionMap(<<>>, dependencies)
        entriesMethodLength == 0
    IN  IF target = "indexed"
        THEN Ok(findConflicts(SubSeq(conflictMap, 1, entriesMethodLength)))
        ELSE Throw(Err("versionMap.entries is not a function or its return value is not iterable"))

(***************************************************************************)
(* The workspace and the services the command handler calls.               *)
(***************************************************************************)
\* the manifests of the workspace: pom.xml (absent, well-formed or not parsable),
\* build.gradle and build.gradle.kts
Workspaces ==
    [pom : {"absent", "ok", "malformed"}, gradle : BOOLEAN, gradleKts : BOOLEAN]

\* detectBuildSystem (ProjectAnalyzer and DependencyManager have the same body)
detectBuildSystem(w) ==
    LET pomExists == w.pom # "absent"
        gradleExists == w.gradle \/ w.gradleKts
    IN  IF pomExists THEN Ok("maven")
        ELSE IF gradleExists THEN Ok("gradle")
        ELSE Throw(Err("No supported build system detected"))

\* detectJavaVersion: the stub's constant
DetectedVersion ==
    <<"d", "e", "t", "e", "c", "t", "e", "d", "-", "v", "e", "r", "s", "i", "o", "n">>

NoProjectInfo ==
    [buildSystem |-> "none", currentJavaVersion |-> <<>>, dependencies |-> <<>>,
     springBootVersion |-> Undefined]

\* an analyzeProject that fills in what it can when no build system is detected
analyzeProjectPartial(w) ==
    LET buildSystem == detectBuildSystem(w)
    IN  Ok([buildSystem |-> IF buildSystem.ok THEN buildSystem.value ELSE "none",
            currentJavaVersion |-> DetectedVersion,
            dependencies |-> <<>>,
            springBootVersion |-> Undefined])

\* ProjectAnalyzer.analyzeProject: the ProjectInfo, or the error of detectBuildSystem
analyzeProject(w) ==
    LET buildSystem == detectBuildSystem(w)
    IN  IF buildSystem.ok
        THEN Ok([buildSystem |-> buildSystem.value,
                 currentJavaVersion |-> DetectedVersion,
                 dependencies |-> <<>>,
                 springBootVersion |-> Undefined])
        ELSE Throw(buildSystem.error)

\* a detectBuildSystem that looks for the Gradle files first
detectBuildSystemGradleFirst(w) ==
    LET pomExists == w.pom # "absent"
        gradleExists == w.gradle \/ w.gradleKts
    IN  IF gradleExists THEN Ok("gradle")
        ELSE IF pomExists THEN Ok("maven")
        ELSE Throw(Err("No supported build system detected"))

\* DependencyManager.detectBuildSystem
DependencyManager_detectBuildSystem(w) ==
    LET pomExists == w.pom # "absent"
        gradleExists == w.gradle \/ w.gradleKts
    IN  IF pomExists THEN Ok("maven")
        ELSE IF gradleExists THEN Ok("gradle")
        ELSE Throw(Err("No supported build system detected"))

\* what the XML parser reports for a pom.xml it cannot parse
ParseFailure == "Unclosed root tag"

\* DependencyManager.updateMavenDependencies
updateMavenDependencies(w, updates) ==
    IF w.pom = "absent" THEN Throw(Err("pom.xml not found"))
    ELSE IF w.pom = "malformed"
    THEN Throw(Err("Failed to update Maven dependencies: " \o ParseFailure))
    ELSE Ok("written")

\* DependencyManager.updateGradleDependencies
updateGradleDependencies(w, updates) ==
    IF ~w.gradleKts /\ ~w.gradle THEN Throw(Err("Gradle build file not found"))
    ELSE Ok("written")

\* DependencyManager.updateDependencies
updateDependencies(w, updates) ==
    LET buildSystem == DependencyManager_detectBuildSystem(w)
    IN  IF ~buildSystem.ok THEN Throw(buildSystem.error)
        ELSE IF buildSystem.value = "maven" THEN updateMavenDependencies(w, updates)
        ELSE updateGradleDependencies(w, updates)

(***************************************************************************)
(* The manifests as DependencyManager reads and writes them.  A pom.xml is *)
(* the list of the <dependency> elements of project.dependencies, or is    *)
(* not parsable; a Gradle build file is the list of its dependency         *)
(* declarations.  Coordinates and versions are strings here: the Gradle    *)
(* rewrite puts them into a regular expression.                            *)
(***************************************************************************)
\* a file that does not exist, a manifest with its entries, and a pom.xml the XML
\* parser rejects
Absent == [exists |-> FALSE, parsable |-> FALSE, entries |-> <<>>]
Manifest(entries) == [exists |-> TRUE, parsable |-> TRUE, entries |-> entries]
Malformed == [exists |-> TRUE, parsable |-> FALSE, entries |-> <<>>]

\* a <dependency> element without a <version> element
NoVersion == "(none)"

\* the three manifests of a workspace: which exist, and whether pom.xml parses
WorkspaceOf(files) ==
    [pom |-> IF ~files.pom.exists THEN "absent"
             ELSE IF ~files.pom.parsable THEN "malformed" ELSE "ok",
     gradle |-> files.gradle.exists,
     gradleKts |-> files.gradleKts.exists]

\* the least of a set of indices, 0 when there is none
FirstIndex(indices) ==
    IF indices = {} THEN 0 ELSE CHOOSE i \in indices : \A j \in indices : i <= j

\* updateMavenDependency: the first dependency with the update's groupId and
\* artifactId gets toVersion; reading the list of a project without dependency
\* elements, or the version of a dependency that declares none, is a TypeError
updateMavenDependency(pom, update) ==
    LET i == FirstIndex({k \in 1..Len(pom) :
                /\ pom[k].groupId = update.groupId
                /\ pom[k].artifactId = update.artifactId})
    IN  IF pom = <<>> THEN Throw(Err("undefined is not iterable"))
        ELSE IF i = 0 THEN Ok(pom)
        ELSE IF pom[i].version = NoVersion
        THEN Throw(Err("Cannot set properties of undefined (setting '0')"))
        ELSE Ok([pom EXCEPT ![i].version = update.toVersion])

\* updateMavenDependencies, the try block: parse, update each, build
RECURSIVE updateEachMaven(_, _)
updateEachMaven(pom, updates) ==
    IF updates = <<>> THEN Ok(pom)
    ELSE LET updated == updateMavenDependency(pom, Head(updates))
         IN  IF updated.ok THEN updateEachMaven(updated.value, Tail(updates))
             ELSE updated

rewritePom(content, updates) ==
    IF ~content.parsable
    THEN Throw(Err("Failed to update Maven dependencies: " \o ParseFailure))
    ELSE LET updated == updateEachMaven(content.entries, updates)
         IN  IF updated.ok THEN Ok(Manifest(updated.value))
             ELSE Throw(Err("Failed to update Maven dependencies: "
                            \o updated.error.message))

\* a regular expression made of the text of pattern matches the whole of text:
\* '.' stands for any character, every other character for itself
RegExpMatches(pattern, text) ==
    /\ Len(pattern) = Len(text)
    /\ \A i \in 1..Len(pattern) :
          SubSeq(pattern, i, i) = "." \/ SubSeq(pattern, i, i) = SubSeq(text, i, i)

\* the text group:artifact:version of a declaration
Notation(groupId, artifactId, version) == groupId \o ":" \o artifactId \o ":" \o version

\* the pattern implementation ['"]group:artifact:fromVersion['"] is found in a
\* declaration: the configuration is 'implementation', followed by a space and a
\* string in single or in double quotes
dependencyPattern(update, line) ==
    /\ line.configuration = "implementation"
    /\ line.form \in {"single", "double"}
    /\ RegExpMatches(Notation(update.groupId, update.artifactId, update.fromVersion),
                     Notation(line.groupId, line.artifactId, line.version))

\* content.replace(dependencyPattern, ...): the first match is replaced
replaceDependency(content, update) ==
    LET i == FirstIndex({k \in 1..Len(content) : dependencyPattern(update, content[k])})
    IN  IF i = 0 THEN content
        ELSE [content EXCEPT ![i] =
                [configuration |-> "implementation", form |-> "single",
                 groupId |-> update.groupId, artifactId |-> update.artifactId,
                 version |-> update.toVersion]]

\* updateGradleDependencies, the try block
RECURSIVE replaceEach(_, _)
replaceEach(content, updates) ==
    IF updates = <<>> THEN content
    ELSE replaceEach(replaceDependency(content, Head(updates)), Tail(updates))

rewriteGradle(content, updates) == Ok(Manifest(replaceEach(content.entries, updates)))

\* an updateDependencies that opens pom.xml for writing before it parses and
\* updates: a failure leaves the file without its dependencies
updateManifestsTruncating(files, updates) ==
    LET w == WorkspaceOf(files)
        outcome == updateDependencies(w, updates)
        buildSystem == DependencyManager_detectBuildSystem(w)
        gradlePath == IF files.gradleKts.exists THEN "gradleKts" ELSE "gradle"
        unchanged(error) == [files |-> files, written |-> {}, error |-> error]
    IN  IF ~buildSystem.ok THEN unchanged(outcome.error)
        ELSE IF buildSystem.value = "maven"
        THEN LET rewritten == rewritePom(files.pom, updates)
             IN  IF rewritten.ok
                 THEN [files |-> [files EXCEPT !.pom = rewritten.value],
                       written |-> {"pom"}, error |-> NoError]
                 ELSE [files |-> [files EXCEPT !.pom = Manifest(<<>>)],
                       written |-> {"pom"}, error |-> rewritten.error]
        ELSE LET rewritten == rewriteGradle(files[gradlePath], updates)
             IN  [files |-> [files EXCEPT ![gradlePath] = rewritten.value],
                  written |-> {gradlePath}, error |-> NoError]

\* DependencyManager.updateDependencies on the manifests: the manifests afterwards,
\* the files written and the error thrown
updateManifests(files, updates) ==
    LET w == WorkspaceOf(files)
        outcome == updateDependencies(w, updates)
        buildSystem == DependencyManager_detectBuildSystem(w)
        gradlePath == IF files.gradleKts.exists THEN "gradleKts" ELSE "gradle"
        unchanged(error) == [files |-> files, written |-> {}, error |-> error]
    IN  IF ~outcome.ok THEN unchanged(outcome.error)
        ELSE IF buildSystem.value = "maven"
        THEN LET rewritten == rewritePom(files.pom, updates)
             IN  IF rewritten.ok
                 THEN [files |-> [files EXCEPT !.pom = rewritten.value],
                       written |-> {"pom"}, error |-> NoError]
                 ELSE unchanged(rewritten.error)
        ELSE LET rewritten == rewriteGradle(files[gradlePath], updates)
             IN  [files |-> [files EXCEPT ![gradlePath] = rewritten.value],
                  written |-> {gradlePath}, error |-> NoError]

\* how an external process started by exec ends: its error, if any
ExecExits ==
    {[ok |-> TRUE, message |-> ""],
     [ok |-> FALSE, message |-> "Command failed: ./mvnw"],
     [ok |-> FALSE, message |-> "spawn ./mvnw ENOENT"]}

\* OpenRewriteService.applyRecipes, catch block: the error thrown for a recipe
recipeError(recipe, cause) ==
    Err("Failed to apply recipe " \o recipe \o ": " \o cause.message)

\* showUpgradeSummary: the message built from the results
summaryMessage(results) ==
    "Upgrade Results: Build: " \o (IF results.buildSuccess THEN "Success" ELSE "Failed")
    \o " Tests: " \o (IF results.testsPassing THEN "Passing" ELSE "Failed")
    \o " CVE Issues: " \o results.cveIssues \o " Changes: " \o results.changes

\* validateResults: checkBuild, checkTests, getIssues and getChangeSummary are stubs
validationResults ==
    [buildSuccess |-> TRUE, testsPassing |-> TRUE, cveIssues |-> "0", changes |-> "0"]

(***************************************************************************)
(* State.                                                                  *)
(***************************************************************************)
VARIABLES
    ws,             \* the manifests of the workspace
    upgradeHistory, \* the persisted 'upgradeHistory' list of the global state
    run,            \* per invocation of 'java.upgrade.start': the handler's state
    req,            \* a call of the planner or of the resolver: its arguments
    res,            \* what that call returned
    pm,             \* the ProgressManager
    globalState,    \* the other keys of the global state
    calls,          \* the calls of WorkspaceStateManager that have not returned
    disk,           \* the files of the workspace folder and of its backups
    clock,          \* what new Date() returns
    resolver        \* the DependencyResolver: its cache, its fetches and its calls

vars == <<ws, upgradeHistory, run, req, res, pm, globalState, calls, disk, clock, resolver>>

\* the stages of executeUpgrade, in the order of its awaits
Stages ==
    <<"applyRecipes", "updateDependencies", "fixBuildIssues", "runTests",
      "cveValidator.validate">>
StageIds == 1..Len(Stages)

NoPlan ==
    [javaVersion |-> <<>>, springBootVersion |-> Undefined, recipes |-> <<>>,
     dependencyUpdates |-> <<>>]

\* an entry without completedAt, and a key of the global state that is undefined
NotCompleted == -1
Unset == -1

\* the history found in the global state when the extension is activated
HistoryAtActivation ==
    <<[timestamp |-> 0, fromVersion |-> "8", toVersion |-> "11",
       buildTool |-> "maven", projectPath |-> "/p", status |-> "completed",
       completedAt |-> 0]>>

(***************************************************************************)
(* WorkspaceStateManager.  globalState.update(key, value) changes the      *)
(* value that get(key) returns at once and returns a promise; a call of    *)
(* WorkspaceStateManager runs up to its next await in one step.            *)
(***************************************************************************)
\* calls of WorkspaceStateManager that may overlap
NumCalls == 2
\* the last instant of the clock
MaxClock == 2
\* calls of WorkspaceStateManager made in all
MaxStarted == 2

Calls == 1..NumCalls

PreferenceKeys == {"autoBackup"}
PreferenceValues == {"on", "off"}
Warnings == {"w1"}
UpgradeStatuses == {"completed", "failed"}
UpgradeInfos ==
    {[fromVersion |-> "8", toVersion |-> "17", buildTool |-> "maven",
      projectPath |-> "/p"]}

\* lastUpgradeTimestamp, userPreferences and ignoredWarnings at activation
GlobalStateAtActivation ==
    [lastUpgradeTimestamp |-> 0,
     userPreferences |-> [key \in PreferenceKeys |-> "unset"],
     ignoredWarnings |-> <<>>]

\* no UpgradeInfo
NoInfo == [fromVersion |-> "", toVersion |-> "", buildTool |-> "", projectPath |-> ""]

\* a call slot with no call in it
IdleCall ==
    [op |-> "none", pc |-> "idle",
     timestamp |-> 0,          \* the timestamp the call took
     info |-> NoInfo,          \* the UpgradeInfo the call was given
     status |-> "",            \* the UpgradeStatus the call was given
     wrote |-> <<>>,           \* the keys the call has updated, in order
     served |-> 0]             \* the calls made in this slot so far

\* the call op made in a slot
NewCall(slot, op) == [IdleCall EXCEPT !.op = op, !.served = slot.served + 1]

\* getUpgradeHistory(): the stored list, [] when the key is undefined
getUpgradeHistory(stored) == stored

\* a recordUpgradeStart that starts from the default list, not from the stored one
historyDefault(call, stored) == <<>>

\* recordUpgradeStart reads the history after its first await
historyAfterAwait(call, stored) == getUpgradeHistory(stored)

\* recordUpgradeStart: history.push({timestamp, ...info, status: 'in-progress'})
pushUpgradeStart(history, timestamp, info) ==
    Append(history,
           [timestamp |-> timestamp, fromVersion |-> info.fromVersion,
            toVersion |-> info.toVersion, buildTool |-> info.buildTool,
            projectPath |-> info.projectPath, status |-> "in-progress",
            completedAt |-> NotCompleted])

\* an updateUpgradeStatus that sets the status of every entry that is in progress
setUpgradeStatusAll(history, status, now) ==
    [k \in 1..Len(history) |->
        IF history[k].status = "in-progress" \/ k = Len(history)
        THEN [history[k] EXCEPT !.status = status, !.completedAt = now]
        ELSE history[k]]

\* updateUpgradeStatus: the last entry gets the status and completedAt
setUpgradeStatus(history, status, now) ==
    [history EXCEPT ![Len(history)] = [@ EXCEPT !.status = status, !.completedAt = now]]

(***************************************************************************)
(* BackupService (services/backupService.ts).  The workspace folder holds  *)
(* the files of RelativePaths; a backup is the directory                   *)
(* .java-upgrade-backup/<timestamp> of the workspace folder with the       *)
(* copies under the same relative paths.                                   *)
(***************************************************************************)
WorkspaceRoot == "/ws"
backupDir == WorkspaceRoot \o "/" \o ".java-upgrade-backup"

RelativePaths == {"pom.xml", "build.gradle", "src/App.java"}
Contents == {"v1", "v2"}
NoFile == "(no file)"

\* the name of the backup made at instant t: the timestamp with ':' and '.' replaced
RECURSIVE BackupName(_)
BackupName(t) == IF t = 0 THEN "T" ELSE BackupName(t - 1) \o "-0"

backupPathOf(t) == backupDir \o "/" \o BackupName(t)

\* text.includes(pattern)
Includes(text, pattern) ==
    \E i \in 1..(Len(text) - Len(pattern) + 1) :
        SubSeq(text, i, i + Len(pattern) - 1) = pattern

ignoredPatterns == {"node_modules", "target", "build", ".git", ".java-upgrade-backup"}

\* getProjectFiles(root): the files under root whose full path includes none of
\* the ignored patterns (a directory whose path includes one is not walked, and
\* its path is part of the path of every file below it)
getProjectFiles(root, tree) ==
    {file \in RelativePaths :
        /\ tree[file] # NoFile
        /\ ~\E pattern \in ignoredPatterns : Includes(root \o "/" \o file, pattern)}

NoTree == [file \in RelativePaths |-> NoFile]

\* backupProjectFiles: each project file is copied under the backup's directory
backupProjectFiles(d, t) ==
    LET filesToBackup == getProjectFiles(WorkspaceRoot, d.work)
    IN  [d EXCEPT !.backups[t] =
            [file \in RelativePaths |->
                IF file \in filesToBackup THEN d.work[file] ELSE @[file]]]

\* listBackups: the timestamps of the directories of backupDir, the newest first;
\* a backup's directory exists once a file was copied into it
RECURSIVE newestFirst(_)
newestFirst(timestamps) ==
    IF timestamps = {} THEN <<>>
    ELSE LET newest == CHOOSE t \in timestamps : \A u \in timestamps : u <= t
         IN  <<newest>> \o newestFirst(timestamps \ {newest})

listBackups(d) == newestFirst({t \in DOMAIN d.backups : d.backups[t] # NoTree})

\* getBackupPath(timestamp): the backup of that name, the newest one when no
\* timestamp is given (0), or undefined (0)
getBackupPath(d, timestamp) ==
    LET backups == listBackups(d)
    IN  IF timestamp # 0
        THEN (IF \E k \in 1..Len(backups) : backups[k] = timestamp THEN timestamp ELSE 0)
        ELSE IF backups # <<>> THEN backups[1] ELSE 0

\* restoreProjectFiles: each file found under the backup's directory is copied back
restoreProjectFiles(d, t) ==
    LET filesToRestore == getProjectFiles(backupPathOf(t), d.backups[t])
    IN  [d EXCEPT !.work =
            [file \in RelativePaths |->
                IF file \in filesToRestore THEN d.backups[t][file] ELSE @[file]]]

\* the workspace folder when the extension is activated: no backup yet
DiskAtActivation ==
    [work |-> [file \in RelativePaths |-> "v1"],
     backups |-> [t \in 1..MaxClock |-> NoTree],
     restored |-> 0,          \* the backup restoreBackup last restored from
     error |-> NoError]       \* the error the last call of BackupService threw

\* an invocation slot before its handler is called
IdleRun ==
    [pc |-> "idle",
     projectInfo |-> NoProjectInfo,
     plan |-> NoPlan,
     decision |-> "pending",         \* the promise of showUpgradePlan
     firstVerdict |-> "none",        \* the first 'approve' or 'cancel' the panel sent
     panelClosed |-> FALSE,          \* the user has closed the plan panel
     contradicted |-> FALSE,         \* the panel later sent the opposite of its first verdict
     stage |-> [i \in StageIds |-> "pending"],
     stageLog |-> <<>>,              \* the stages in the order they were started
     started |-> <<>>,               \* the recipes whose process was started
     applied |-> <<>>,               \* the recipes whose process ended without error
     procRunning |-> FALSE,          \* a recipe's process is running
     cancelRequested |-> FALSE,      \* the progress notification's cancel was clicked
     thrown |-> NoError,             \* the error that reached the handler's catch
     cause |-> "",                   \* the error message a recipe's process ended with
     notifications |-> <<>>,         \* the error notifications shown
     summary |-> "",                 \* the results summary shown
     histAtStart |-> <<>>,           \* the persisted history when the handler was called
     trail |-> <<"Idle">>]           \* the states of the state diagram passed through

\* the state of the documented state diagram that a place of the handler belongs to
phase(pc) ==
    CASE pc \in {"idle", "rejected"} -> "Idle"
      [] pc = "analyzing" -> "Analyzing"
      [] pc \in {"planning", "awaitDecision"} -> "PlanningUpgrade"
      [] pc = "executing" -> "ExecutingUpgrade"
      [] pc = "validating" -> "Validating"
      [] pc = "complete" -> "Complete"
      [] pc = "error" -> "Error"

\* the handler moves to pc
goto(rs, pc) ==
    [rs EXCEPT !.pc = pc,
               !.trail = IF phase(pc) # phase(rs.pc) THEN Append(@, phase(pc)) ELSE @]

(***************************************************************************)
(* Calls of the planner and of the resolver: the arguments a call is made  *)
(* with.                                                                   *)
(***************************************************************************)
\* the sequences over S of length at most n
SeqsUpTo(S, n) == UNION {[1..k -> S] : k \in 0..n}

\* the characters of the Java version strings
VersionChars == {"1", "2", "7", "8", ".", "-", "e"}
JavaVersions == SeqsUpTo(VersionChars, MaxVersionLength)

\* undefined, the empty string and a version
SpringVersions == {Undefined, <<>>, <<"2", ".", "7">>}

V10 == <<"1", ".", "0">>
V20 == <<"2", ".", "0">>
Dependencies ==
    {[groupId |-> "g", artifactId |-> "a", version |-> V10],
     [groupId |-> "g", artifactId |-> "a", version |-> V20],
     [groupId |-> "g", artifactId |-> "b", version |-> V10]}
DepLists == SeqsUpTo(Dependencies, MaxDeps)

\* the characters of a string
Chars(string) == [i \in 1..Len(string) |-> SubSeq(string, i, i)]

\* the detected Spring Boot versions: the strings of version characters, and two
\* strings that are no version numbers
SpringChars == {"1", "2", "3", "5", "7", "."}
DetectedSpringVersions ==
    SeqsUpTo(SpringChars, MaxSpringLength) \cup {Chars("constructor"), Chars("2.7.18")}

\* every Java version with no dependency, two Java versions with every list, and
\* one Java version with every detected Spring Boot version
ProjectInfos ==
    {[buildSystem |-> "maven", currentJavaVersion |-> j, dependencies |-> d,
      springBootVersion |-> sb] :
        j \in JavaVersions, d \in {<<>>}, sb \in SpringVersions}
    \cup
    {[buildSystem |-> "maven", currentJavaVersion |-> j, dependencies |-> d,
      springBootVersion |-> sb] :
        j \in {<<"8">>, <<"1", "7">>}, d \in DepLists, sb \in SpringVersions}
    \cup
    {[buildSystem |-> "maven", currentJavaVersion |-> j, dependencies |-> d,
      springBootVersion |-> sb] :
        j \in {<<"1", "7">>}, d \in {<<>>}, sb \in DetectedSpringVersions}

\* what the registry answers to the query of one dependency
Replies ==
    {[ok |-> FALSE, docs |-> <<>>],
     [ok |-> TRUE, docs |-> <<>>],
     [ok |-> TRUE, docs |-> <<V10>>],
     [ok |-> TRUE, docs |-> <<V20, V10>>]}

NoRequest == [op |-> "none", info |-> NoProjectInfo, deps |-> <<>>, replies |-> <<>>]
Requests ==
    {[op |-> "generatePlan", info |-> i, deps |-> <<>>, replies |-> <<>>] :
        i \in ProjectInfos}
    \cup
    UNION {{[op |-> "suggestUpdates", info |-> NoProjectInfo, deps |-> d, replies |-> a] :
                a \in [1..Len(d) -> Replies]} : d \in DepLists}

NoResult == [done |-> FALSE, plan |-> NoPlan, updates |-> <<>>]

(***************************************************************************)
(* ProgressManager (services/progressManager.ts): its fields and the place *)
(* of begin().                                                             *)
(***************************************************************************)
\* begin() calls allowed after one initializeUpgrade
MaxBegins == 2

NewProgressManager ==
    [steps |-> <<>>,               \* the tasks, named by their titles
     currentStepIndex |-> -1,
     token |-> "none",             \* currentToken: none, live or cancelled
     pc |-> "idle",                \* begin(): idle, loop, task, done or failed
     i |-> 0,                      \* the counter of runAllSteps
     begins |-> 0,                 \* begin() calls since initializeUpgrade
     taskLog |-> <<>>,             \* the tasks started by the current begin(), in order
     error |-> NoError]            \* the error begin() rejected with

(***************************************************************************)
(* DependencyResolver: the cache of getDependencyInfo.  A call runs up to  *)
(* its next await in one step.                                             *)
(***************************************************************************)
\* the coordinates asked for
Coordinate(groupId, artifactId, version) ==
    [groupId |-> groupId, artifactId |-> artifactId, version |-> version]
ResolverCoordinates == {Coordinate("g", "a", "1.0"), Coordinate("g", "b", "1.0")}

\* getDependencyInfo: the key of a coordinate
KeyOf(dependency) ==
    dependency.groupId \o ":" \o dependency.artifactId \o ":" \o dependency.version
ResolverKeys == {KeyOf(dependency) : dependency \in ResolverCoordinates}

\* the lists validateDependencyCompatibility is called with
ValidatedLists ==
    {<<>>} \cup {<<d>> : d \in ResolverCoordinates}
    \cup {<<d, e>> : d \in ResolverCoordinates, e \in ResolverCoordinates}

\* a call slot of the resolver with no call in it
IdleResolverCall ==
    [op |-> "none", pc |-> "idle",
     key |-> "",               \* the key getDependencyInfo is asked for
     rest |-> <<>>,            \* the dependencies of the loop still to come
     results |-> 0]            \* the results pushed or returned so far

\* new DependencyResolver(logger)
NewResolver ==
    [resolvedDependencies |-> {},                   \* the keys of the map
     fetches |-> [key \in ResolverKeys |-> 0],      \* the calls of fetchDependencyInfo
     made |-> 0,                                    \* the calls made so far
     calls |-> [c \in Calls |-> IdleResolverCall]]

\* getDependencyInfo up to its await: fetchDependencyInfo is called when the map
\* has no entry for the key; with an entry the call returns it
getDependencyInfo(rv, c, dependency) ==
    LET key == KeyOf(dependency)
    IN  IF key \notin rv.resolvedDependencies
        THEN [rv EXCEPT !.fetches[key] = @ + 1,
                        !.calls[c].key = key, !.calls[c].pc = "awaitFetch"]
        ELSE [rv EXCEPT !.calls[c].key = key, !.calls[c].pc = "awaitInfo"]

\* getDependencyInfo after its await: the entry is set and returned
setDependencyInfo(rv, c) ==
    [rv EXCEPT !.resolvedDependencies = @ \cup {rv.calls[c].key},
               !.calls[c].pc = "awaitInfo"]

\* the global state, the workspace folder, the clock and the resolver when the
\* extension is activated; no call of WorkspaceStateManager is under way
StateAtActivation ==
    /\ globalState = GlobalStateAtActivation
    /\ calls = [c \in Calls |-> IdleCall]
    /\ disk = DiskAtActivation
    /\ clock = 1
    /\ resolver = NewResolver

\* the workspaces the handler is run in: at most one manifest
HandlerWorkspaces ==
    {w \in Workspaces :
        Cardinality({f \in {"pom", "gradle", "gradleKts"} :
            IF f = "pom" THEN w.pom # "absent" ELSE w[f]}) <= 1}

Init ==
    /\ ws \in HandlerWorkspaces
    /\ upgradeHistory = HistoryAtActivation
    /\ run = [r \in Runs |-> IdleRun]
    /\ req = NoRequest
    /\ res = NoResult
    /\ pm = NewProgressManager
    /\ StateAtActivation

(***************************************************************************)
(* The 'java.upgrade.start' command handler (extension.ts).                *)
(***************************************************************************)
\* catch (error): the message shown
errorMessage(error) ==
    IF error.isError THEN error.message ELSE "Unknown error occurred"

\* a catch block that shows nothing
catchErrorSilent(rs, error) == [goto(rs, "error") EXCEPT !.thrown = error]

\* the handler's catch block: one error notification, and the handler ends
catchError(rs, error) ==
    [goto(rs, "error") EXCEPT
               !.thrown = error,
               !.notifications = @ \o <<"Upgrade failed: " \o errorMessage(error)>>]

\* the command is invoked: the handler calls analyzeProject
Invoke(r) ==
    /\ run[r].pc = "idle"
    /\ run' = [run EXCEPT ![r] =
            goto([IdleRun EXCEPT !.histAtStart = upgradeHistory], "analyzing")]
    /\ UNCHANGED <<globalState, calls, disk, clock, ws, upgradeHistory, req, res, pm, resolver>>

\* analyzeProject settles
AnalyzeProject(r) ==
    /\ run[r].pc = "analyzing"
    /\ LET result == analyzeProject(ws)
       IN  run' = [run EXCEPT ![r] =
                IF result.ok
                THEN [goto(@, "planning") EXCEPT !.projectInfo = result.value]
                ELSE catchError(@, result.error)]
    /\ UNCHANGED <<globalState, calls, disk, clock, ws, upgradeHistory, req, res, pm, resolver>>

\* generatePlan settles and showUpgradePlan creates the panel
GeneratePlan(r) ==
    /\ run[r].pc = "planning"
    /\ run' = [run EXCEPT ![r] =
            [goto(@, "awaitDecision") EXCEPT !.plan = generatePlan(run[r].projectInfo)]]
    /\ UNCHANGED <<globalState, calls, disk, clock, ws, upgradeHistory, req, res, pm, resolver>>

\* a listener that takes every message but 'cancel' for the approval
onDidReceiveMessageLax(decision, command) ==
    IF decision # "pending" THEN decision
    ELSE IF command = "cancel" THEN "rejected"
    ELSE "approved"

\* a listener whose last message decides
onDidReceiveMessageLast(decision, command) ==
    IF command = "approve" THEN "approved"
    ELSE IF command = "cancel" THEN "rejected"
    ELSE decision

\* the panel's message listener: resolve(true), resolve(false) or nothing; a
\* promise that is resolved stays as it is
onDidReceiveMessage(decision, command) ==
    IF decision # "pending" THEN decision
    ELSE IF command = "approve" THEN "approved"
    ELSE IF command = "cancel" THEN "rejected"
    ELSE decision

PanelCommands == {"approve", "cancel", "refresh"}

\* the listener is called with a message of the panel
receiveMessage(rs, command) ==
    [rs EXCEPT !.decision = onDidReceiveMessage(@, command),
               !.firstVerdict =
                   IF @ = "none" /\ command \in {"approve", "cancel"}
                   THEN command ELSE @]

\* the panel posts a message
PanelMessage(r, command) ==
    /\ run[r].pc \in {"awaitDecision", "executing", "validating"}
    /\ ~run[r].panelClosed
    /\ run' = [run EXCEPT ![r] = receiveMessage(@, command)]
    /\ UNCHANGED <<globalState, calls, disk, clock, ws, upgradeHistory, req, res, pm, resolver>>

\* the panel posts a message, and a verdict opposite to the first one is noted
PanelMessageNoted(r, command) ==
    /\ run[r].pc \in {"awaitDecision", "executing", "validating"}
    /\ ~run[r].panelClosed
    /\ run' = [run EXCEPT ![r] =
            [receiveMessage(@, command) EXCEPT
                !.contradicted =
                    @ \/ (/\ run[r].firstVerdict # "none"
                          /\ command \in {"approve", "cancel"}
                          /\ command # run[r].firstVerdict)]]
    /\ UNCHANGED <<globalState, calls, disk, clock, ws, upgradeHistory, req, res, pm, resolver>>

\* the user closes the plan panel: showUpgradePlan has no listener for it, and a
\* closed panel posts no message
ClosePanel(r) ==
    /\ run[r].pc \in {"awaitDecision", "executing", "validating"}
    /\ ~run[r].panelClosed
    /\ run' = [run EXCEPT ![r] = [@ EXCEPT !.panelClosed = TRUE]]
    /\ UNCHANGED <<globalState, calls, disk, clock, ws, upgradeHistory, req, res, pm, resolver>>

\* the handler without the test of the user's answer
afterDecisionUnchecked(userApproved) == "executing"

\* if (!userApproved) return; else executeUpgrade(upgradePlan)
afterDecision(userApproved) == IF ~userApproved THEN "rejected" ELSE "executing"

\* showUpgradePlan's promise is resolved: the handler goes on
Decided(r) ==
    /\ run[r].pc = "awaitDecision"
    /\ run[r].decision # "pending"
    /\ run' = [run EXCEPT ![r] = goto(@, afterDecision(run[r].decision = "approved"))]
    /\ UNCHANGED <<globalState, calls, disk, clock, ws, upgradeHistory, req, res, pm, resolver>>

(***************************************************************************)
(* executeUpgrade (extension.ts) with OpenRewriteService.applyRecipes.     *)
(***************************************************************************)
\* no stage of the run is in flight
quiet(rs) == \A i \in StageIds : rs.stage[i] # "running"

\* a stage called without awaiting the one before it
mayStartUnawaited(rs, i) ==
    /\ rs.stage[i] = "pending"
    /\ IF i = 1 THEN TRUE ELSE rs.stage[i - 1] \in {"running", "done"}

\* stage i is called: each call is awaited, so the one before it has returned
mayStart(rs, i) ==
    /\ rs.stage[i] = "pending"
    /\ quiet(rs)
    /\ IF i = 1 THEN TRUE ELSE rs.stage[i - 1] = "done"

beginStage(rs, i) ==
    [rs EXCEPT !.stage[i] = "running", !.stageLog = Append(@, Stages[i])]

endStage(rs, i) == [rs EXCEPT !.stage[i] = "done"]

\* the stage's call rejects: the error leaves executeUpgrade for the handler's catch
failStage(rs, i, error) == catchError([rs EXCEPT !.stage[i] = "failed"], error)

\* a stage of executeUpgrade is called
BeginStage(r, i) ==
    /\ run[r].pc = "executing"
    /\ mayStart(run[r], i)
    /\ run' = [run EXCEPT ![r] = beginStage(@, i)]
    /\ UNCHANGED <<globalState, calls, disk, clock, ws, upgradeHistory, req, res, pm, resolver>>

\* applyRecipes: the recipe the for loop is at, 0 when the list is exhausted
nextRecipe(rs) ==
    IF Len(rs.applied) < Len(rs.plan.recipes) THEN Len(rs.applied) + 1 ELSE 0

\* applyRecipes: executeRecipe starts the process of the next recipe
StartRecipe(r) ==
    /\ run[r].pc = "executing"
    /\ run[r].stage[1] = "running"
    /\ ~run[r].procRunning
    /\ nextRecipe(run[r]) # 0
    /\ run' = [run EXCEPT ![r] =
            [@ EXCEPT !.procRunning = TRUE,
                      !.started = Append(@, run[r].plan.recipes[nextRecipe(run[r])])]]
    /\ UNCHANGED <<globalState, calls, disk, clock, ws, upgradeHistory, req, res, pm, resolver>>

\* applyRecipes with a catch block that goes on to the next recipe
afterRecipeContinue(rs, exit) ==
    [rs EXCEPT !.procRunning = FALSE,
               !.applied = Append(@, rs.plan.recipes[nextRecipe(rs)])]

\* applyRecipes after the process of a recipe has ended with exit
afterRecipe(rs, exit) ==
    LET recipe == rs.plan.recipes[nextRecipe(rs)]
    IN  IF exit.ok
        THEN [rs EXCEPT !.procRunning = FALSE, !.applied = Append(@, recipe)]
        ELSE failStage([rs EXCEPT !.procRunning = FALSE], 1, recipeError(recipe, exit))

\* the process of a recipe ends
RecipeExit(r, exit) ==
    /\ run[r].pc = "executing"
    /\ run[r].stage[1] = "running"
    /\ run[r].procRunning
    /\ run' = [run EXCEPT ![r] = [afterRecipe(@, exit) EXCEPT !.cause = exit.message]]
    /\ UNCHANGED <<globalState, calls, disk, clock, ws, upgradeHistory, req, res, pm, resolver>>

\* applyRecipes returns: every recipe was applied
EndApplyRecipes(r) ==
    /\ run[r].pc = "executing"
    /\ run[r].stage[1] = "running"
    /\ ~run[r].procRunning
    /\ nextRecipe(run[r]) = 0
    /\ run' = [run EXCEPT ![r] = endStage(@, 1)]
    /\ UNCHANGED <<globalState, calls, disk, clock, ws, upgradeHistory, req, res, pm, resolver>>

\* updateDependencies settles
EndUpdateDependencies(r) ==
    /\ run[r].pc = "executing"
    /\ run[r].stage[2] = "running"
    /\ LET result == updateDependencies(ws, run[r].plan.dependencyUpdates)
       IN  run' = [run EXCEPT ![r] =
                IF result.ok THEN endStage(@, 2) ELSE failStage(@, 2, result.error)]
    /\ UNCHANGED <<globalState, calls, disk, clock, ws, upgradeHistory, req, res, pm, resolver>>

\* fixBuildIssues, runTests (stubs) or cveValidator.validate (no dependency to
\* check: getCurrentDependencies is a stub) settles
EndStubStage(r, i) ==
    /\ i \in {3, 4, 5}
    /\ run[r].pc = "executing"
    /\ run[r].stage[i] = "running"
    /\ run' = [run EXCEPT ![r] = endStage(@, i)]
    /\ UNCHANGED <<globalState, calls, disk, clock, ws, upgradeHistory, req, res, pm, resolver>>

\* a cancel request that ends the stage in flight
requestCancelAbort(rs) ==
    [rs EXCEPT !.cancelRequested = TRUE,
               !.procRunning = FALSE,
               !.stage = [i \in StageIds |-> IF @[i] = "running" THEN "failed" ELSE @[i]]]

\* the progress notification's cancel button: executeUpgrade's callback takes no
\* token, so nothing reads the request
requestCancel(rs) == [rs EXCEPT !.cancelRequested = TRUE]

CancelProgress(r) ==
    /\ run[r].pc = "executing"
    /\ ~run[r].cancelRequested
    /\ run' = [run EXCEPT ![r] = requestCancel(@)]
    /\ UNCHANGED <<globalState, calls, disk, clock, ws, upgradeHistory, req, res, pm, resolver>>

\* the callback of withProgress has returned: executeUpgrade returns
executeDone(rs) == \A i \in StageIds : rs.stage[i] = "done"

EndExecute(r) ==
    /\ run[r].pc = "executing"
    /\ executeDone(run[r])
    /\ run' = [run EXCEPT ![r] = goto(@, "validating")]
    /\ UNCHANGED <<globalState, calls, disk, clock, ws, upgradeHistory, req, res, pm, resolver>>

\* validateResults: the results are collected and the summary is shown
ValidateResults(r) ==
    /\ run[r].pc = "validating"
    /\ run' = [run EXCEPT ![r] =
            [goto(@, "complete") EXCEPT !.summary = summaryMessage(validationResults)]]
    /\ UNCHANGED <<globalState, calls, disk, clock, ws, upgradeHistory, req, res, pm, resolver>>

\* the handler has returned: the slot is free for the next invocation
HandlerReturn(r) ==
    /\ run[r].pc \in {"rejected", "complete", "error"}
    /\ run' = [run EXCEPT ![r] = [IdleRun EXCEPT !.trail = goto(run[r], "idle").trail]]
    /\ UNCHANGED <<globalState, calls, disk, clock, ws, upgradeHistory, req, res, pm, resolver>>

Next ==
    \/ \E r \in Runs : Invoke(r)
    \/ \E r \in Runs : AnalyzeProject(r)
    \/ \E r \in Runs : GeneratePlan(r)
    \/ \E r \in Runs : \E command \in PanelCommands : PanelMessage(r, command)
    \/ \E r \in Runs : Decided(r)
    \/ \E r \in Runs : \E i \in StageIds : BeginStage(r, i)
    \/ \E r \in Runs : StartRecipe(r)
    \/ \E r \in Runs : \E exit \in ExecExits : RecipeExit(r, exit)
    \/ \E r \in Runs : EndApplyRecipes(r)
    \/ \E r \in Runs : EndUpdateDependencies(r)
    \/ \E r \in Runs : \E i \in StageIds : EndStubStage(r, i)
    \/ \E r \in Runs : EndExecute(r)
    \/ \E r \in Runs : ValidateResults(r)
    \/ \E r \in Runs : HandlerReturn(r)

Spec == Init /\ [][Next]_vars

(***************************************************************************)
(* The command handler with a user who may close the plan panel.  Every    *)
(* continuation of the handler runs once it can, an external process ends, *)
(* and a user facing an open panel with the decision pending does not      *)
(* leave it alone for ever: an answer is posted or the panel is closed.    *)
(***************************************************************************)
\* the steps of the handler of invocation r, the ends of its processes included
HandlerStep(r) ==
    \/ AnalyzeProject(r)
    \/ GeneratePlan(r)
    \/ Decided(r)
    \/ \E i \in StageIds : BeginStage(r, i)
    \/ StartRecipe(r)
    \/ \E exit \in ExecExits : RecipeExit(r, exit)
    \/ EndApplyRecipes(r)
    \/ EndUpdateDependencies(r)
    \/ \E i \in StageIds : EndStubStage(r, i)
    \/ EndExecute(r)
    \/ ValidateResults(r)
    \/ HandlerReturn(r)

\* what the user does with the plan panel of invocation r
UserStep(r) ==
    \/ \E command \in PanelCommands : PanelMessage(r, command)
    \/ ClosePanel(r)

NextLive ==
    \/ \E r \in Runs : Invoke(r)
    \/ \E r \in Runs : HandlerStep(r)
    \/ \E r \in Runs : UserStep(r)

SpecLive ==
    /\ Init
    /\ [][NextLive]_vars
    /\ \A r \in Runs : WF_vars(HandlerStep(r))
    /\ \A r \in Runs : WF_vars(run[r].decision = "pending" /\ UserStep(r))

(***************************************************************************)
(* One invocation of the command handler and its plan panel, the verdicts  *)
(* that the panel posts against its first one being noted.                 *)
(***************************************************************************)
NextPanel ==
    \/ \E r \in {1} : Invoke(r)
    \/ \E r \in {1} : HandlerStep(r)
    \/ \E r \in {1} : \E command \in PanelCommands : PanelMessageNoted(r, command)
    \/ \E r \in {1} : ClosePanel(r)

SpecPanel == Init /\ [][NextPanel]_vars

(***************************************************************************)
(* The planner and the resolver called on their own.                       *)
(***************************************************************************)
InitPlan ==
    /\ ws \in {w \in Workspaces : w.pom = "ok" /\ ~w.gradle /\ ~w.gradleKts}
    /\ upgradeHistory = HistoryAtActivation
    /\ run = [r \in Runs |-> IdleRun]
    /\ req \in Requests
    /\ res = NoResult
    /\ pm = NewProgressManager
    /\ StateAtActivation

\* UpgradePlanGenerator.generatePlan returns
CallGeneratePlan ==
    /\ req.op = "generatePlan"
    /\ ~res.done
    /\ res' = [res EXCEPT !.done = TRUE, !.plan = generatePlan(req.info)]
    /\ UNCHANGED <<globalState, calls, disk, clock, ws, upgradeHistory, run, req, pm, resolver>>

\* DependencyResolver.suggestUpdates returns
CallSuggestUpdates ==
    /\ req.op = "suggestUpdates"
    /\ ~res.done
    /\ res' = [res EXCEPT !.done = TRUE, !.updates = suggestUpdates(req.deps, req.replies)]
    /\ UNCHANGED <<globalState, calls, disk, clock, ws, upgradeHistory, run, req, pm, resolver>>

NextPlan ==
    \/ CallGeneratePlan
    \/ CallSuggestUpdates

SpecPlan == InitPlan /\ [][NextPlan]_vars

(***************************************************************************)
(* DependencyManager.updateDependencies on the manifests of a workspace,   *)
(* DependencyResolver.checkConflicts and resolveLatestVersion, each called *)
(* on its own.                                                             *)
(***************************************************************************)
\* the most entries of a manifest
MaxManifestEntries == 2

ManifestArtifacts == {"a", "b"}
ManifestVersions == {"1.0", "100"}

\* the <dependency> elements of a pom.xml
PomEntries ==
    {[groupId |-> "g", artifactId |-> a, version |-> v] :
        a \in ManifestArtifacts, v \in ManifestVersions \cup {NoVersion}}

\* the dependency declarations of a Gradle build file: implementation 'g:a:v',
\* implementation "g:a:v", implementation("g:a:v") and testImplementation 'g:a:v'
GradleStyles ==
    {<<"implementation", "single">>, <<"implementation", "double">>,
     <<"implementation", "call">>, <<"testImplementation", "single">>}
GradleLines ==
    {[configuration |-> style[1], form |-> style[2], groupId |-> "g",
      artifactId |-> a, version |-> v] :
        style \in GradleStyles, a \in ManifestArtifacts, v \in ManifestVersions}

NoFiles == [pom |-> Absent, gradle |-> Absent, gradleKts |-> Absent]

\* every combination of manifests that exist, and every content of one manifest
ManifestSets ==
    [pom : {Absent, Malformed, Manifest(<<[groupId |-> "g", artifactId |-> "a",
                                          version |-> "1.0"]>>)},
     gradle : {Absent, Manifest(<<[configuration |-> "implementation",
                                   form |-> "single", groupId |-> "g",
                                   artifactId |-> "a", version |-> "1.0"]>>)},
     gradleKts : {Absent, Manifest(<<[configuration |-> "implementation",
                                      form |-> "call", groupId |-> "g",
                                      artifactId |-> "a", version |-> "1.0"]>>)}]
    \cup {[NoFiles EXCEPT !.pom = Manifest(entries)] :
              entries \in SeqsUpTo(PomEntries, MaxManifestEntries)}
    \cup {[NoFiles EXCEPT ![path] = Manifest(lines)] :
              path \in {"gradle", "gradleKts"},
              lines \in SeqsUpTo(GradleLines, MaxManifestEntries)}

UpdateA == [groupId |-> "g", artifactId |-> "a", fromVersion |-> "1.0", toVersion |-> "2.0"]
UpdateB == [groupId |-> "g", artifactId |-> "b", fromVersion |-> "1.0", toVersion |-> "2.0"]
UpdateLists == {<<>>, <<UpdateA>>, <<UpdateB, UpdateA>>}

\* what the registry holds for each groupId and artifactId
RegistryKeys == {<<"g", "a">>, <<"g", "b">>}
Registries == [RegistryKeys -> Replies]
NoRegistry == [key \in RegistryKeys |-> [ok |-> FALSE, docs |-> <<>>]]

NoServiceRequest ==
    [op |-> "none", files |-> NoFiles, updates |-> <<>>, deps |-> <<>>,
     target |-> "iterator", registry |-> NoRegistry]
ServiceRequests ==
    {[NoServiceRequest EXCEPT !.op = "updateDependencies", !.files = f, !.updates = u] :
        f \in ManifestSets, u \in UpdateLists}
    \cup
    {[NoServiceRequest EXCEPT !.op = "checkConflicts", !.deps = d, !.target = t] :
        d \in DepLists, t \in CompilerTargets}
    \cup
    {[NoServiceRequest EXCEPT !.op = "resolveLatestVersion", !.deps = <<d>>,
                              !.registry = registry] :
        d \in Dependencies, registry \in Registries}

NoServiceResult ==
    [done |-> FALSE, files |-> NoFiles, written |-> {}, error |-> NoError,
     conflicts |-> <<>>, version |-> Null]

InitServices ==
    /\ req \in ServiceRequests
    /\ ws = WorkspaceOf(req.files)
    /\ upgradeHistory = HistoryAtActivation
    /\ run = [r \in Runs |-> IdleRun]
    /\ res = NoServiceResult
    /\ pm = NewProgressManager
    /\ StateAtActivation

\* DependencyManager.updateDependencies settles
CallUpdateDependencies ==
    /\ req.op = "updateDependencies"
    /\ ~res.done
    /\ LET result == updateManifests(req.files, req.updates)
       IN  res' = [res EXCEPT !.done = TRUE, !.files = result.files,
                              !.written = result.written, !.error = result.error]
    /\ UNCHANGED <<globalState, calls, disk, clock, ws, upgradeHistory, run, req, pm, resolver>>

\* DependencyResolver.checkConflicts settles
CallCheckConflicts ==
    /\ req.op = "checkConflicts"
    /\ ~res.done
    /\ LET result == checkConflicts(req.deps, req.target)
       IN  res' = [res EXCEPT !.done = TRUE,
                              !.conflicts = IF result.ok THEN result.value ELSE <<>>,
                              !.error = result.error]
    /\ UNCHANGED <<globalState, calls, disk, clock, ws, upgradeHistory, run, req, pm, resolver>>

\* DependencyResolver.resolveLatestVersion settles
CallResolveLatestVersion ==
    /\ req.op = "resolveLatestVersion"
    /\ ~res.done
    /\ res' = [res EXCEPT !.done = TRUE,
                          !.version = resolveLatestVersion(
                              fetchAvailableVersions(req.registry, req.deps[1]))]
    /\ UNCHANGED <<globalState, calls, disk, clock, ws, upgradeHistory, run, req, pm, resolver>>

NextServices ==
    \/ CallUpdateDependencies
    \/ CallCheckConflicts
    \/ CallResolveLatestVersion

SpecServices == InitServices /\ [][NextServices]_vars

(***************************************************************************)
(* ProgressManager: initializeUpgrade, begin, runAllSteps and nextStep,    *)
(* beside one invocation of the command handler whose progress             *)
(* notification can be cancelled.                                          *)
(***************************************************************************)
\* initializeUpgrade(steps), called while no begin() is under way
initializeUpgrade(p, steps) ==
    [p EXCEPT !.steps = steps, !.currentStepIndex = -1, !.begins = 0]

InitializeUpgrade(n) ==
    /\ pm.pc \in {"idle", "done", "failed"}
    /\ pm' = initializeUpgrade(pm, [k \in 1..n |-> k])
    /\ UNCHANGED <<globalState, calls, disk, clock, ws, upgradeHistory, run, req, res, resolver>>

\* begin(): the callback of withProgress keeps the token and calls runAllSteps
Begin ==
    /\ pm.pc \in {"idle", "done", "failed"}
    /\ pm.begins < MaxBegins
    /\ pm' = [pm EXCEPT !.token = "live", !.pc = "loop", !.i = 0, !.begins = @ + 1,
                        !.taskLog = <<>>, !.error = NoError]
    /\ UNCHANGED <<globalState, calls, disk, clock, ws, upgradeHistory, run, req, res, resolver>>

\* isCancelled(): currentToken?.isCancellationRequested || false
isCancelled(p) == p.token = "cancelled"

\* nextStep() up to the call of the step's task
nextStep(p) ==
    LET index == p.currentStepIndex + 1
    IN  IF index >= Len(p.steps)
        THEN [p EXCEPT !.currentStepIndex = index, !.i = @ + 1]
        ELSE [p EXCEPT !.currentStepIndex = index, !.pc = "task",
                       !.taskLog = Append(@, p.steps[index + 1])]

\* a runAllSteps that does not look at the token
runAllStepsUnchecked(p) ==
    IF p.i >= Len(p.steps) THEN [p EXCEPT !.pc = "done"]
    ELSE nextStep(p)

\* one turn of the for loop of runAllSteps
runAllSteps(p) ==
    IF p.i >= Len(p.steps) THEN [p EXCEPT !.pc = "done"]
    ELSE IF isCancelled(p) THEN [p EXCEPT !.pc = "done"]
    ELSE nextStep(p)

RunAllSteps ==
    /\ pm.pc = "loop"
    /\ pm' = runAllSteps(pm)
    /\ UNCHANGED <<globalState, calls, disk, clock, ws, upgradeHistory, run, req, res, resolver>>

\* the task of the current step settles: nextStep returns or rethrows
TaskSettles(ok) ==
    /\ pm.pc = "task"
    /\ pm' = IF ok THEN [pm EXCEPT !.pc = "loop", !.i = @ + 1]
             ELSE [pm EXCEPT !.pc = "failed", !.error = Err("task failed")]
    /\ UNCHANGED <<globalState, calls, disk, clock, ws, upgradeHistory, run, req, res, resolver>>

\* a cancel request that drops the task in flight
cancelTokenAbort(p) ==
    [p EXCEPT !.token = "cancelled", !.pc = IF @ = "task" THEN "done" ELSE @]

\* the token is cancelled: the listener of begin() writes a log line
cancelToken(p) == [p EXCEPT !.token = "cancelled"]

CancelToken ==
    /\ pm.pc \in {"loop", "task"}
    /\ pm.token = "live"
    /\ pm' = cancelToken(pm)
    /\ UNCHANGED <<globalState, calls, disk, clock, ws, upgradeHistory, run, req, res, resolver>>

\* the invocation that runs beside the ProgressManager
ProgressRuns == {1}

NextProgress ==
    \/ \E n \in 0..MaxSteps : InitializeUpgrade(n)
    \/ Begin
    \/ RunAllSteps
    \/ \E ok \in BOOLEAN : TaskSettles(ok)
    \/ CancelToken
    \/ \E r \in ProgressRuns : Invoke(r)
    \/ \E r \in ProgressRuns : AnalyzeProject(r)
    \/ \E r \in ProgressRuns : GeneratePlan(r)
    \/ \E r \in ProgressRuns : \E command \in PanelCommands : PanelMessage(r, command)
    \/ \E r \in ProgressRuns : Decided(r)
    \/ \E r \in ProgressRuns : \E i \in StageIds : BeginStage(r, i)
    \/ \E r \in ProgressRuns : StartRecipe(r)
    \/ \E r \in ProgressRuns : \E exit \in ExecExits : RecipeExit(r, exit)
    \/ \E r \in ProgressRuns : EndApplyRecipes(r)
    \/ \E r \in ProgressRuns : EndUpdateDependencies(r)
    \/ \E r \in ProgressRuns : \E i \in StageIds : EndStubStage(r, i)
    \/ \E r \in ProgressRuns : CancelProgress(r)
    \/ \E r \in ProgressRuns : EndExecute(r)
    \/ \E r \in ProgressRuns : ValidateResults(r)
    \/ \E r \in ProgressRuns : HandlerReturn(r)

SpecProgress == Init /\ [][NextProgress]_vars

(***************************************************************************)
(* The calls of WorkspaceStateManager, overlapping at their awaits.        *)
(***************************************************************************)
\* time passes
Tick ==
    /\ clock < MaxClock
    /\ clock' = clock + 1
    /\ UNCHANGED <<ws, upgradeHistory, run, req, res, pm, globalState, calls, disk, resolver>>

\* the calls made so far
RECURSIVE SumServed(_, _)
SumServed(slots, k) == IF k = 0 THEN 0 ELSE slots[k].served + SumServed(slots, k - 1)

started == SumServed(calls, NumCalls)

\* a call can be made in slot c
Free(c) == calls[c].pc = "idle" /\ started < MaxStarted

\* recordUpgradeStart(info) up to its first await: the timestamp is taken and
\* lastUpgradeTimestamp is updated
RecordUpgradeStart(c, info) ==
    /\ Free(c)
    /\ globalState' = [globalState EXCEPT !.lastUpgradeTimestamp = clock]
    /\ calls' = [calls EXCEPT ![c] =
            [NewCall(@, "recordUpgradeStart") EXCEPT
                !.pc = "awaitLast", !.timestamp = clock, !.info = info,
                !.wrote = <<"lastUpgradeTimestamp">>]]
    /\ UNCHANGED <<ws, upgradeHistory, run, req, res, pm, disk, clock, resolver>>

\* recordUpgradeStart after its first await: the history is read, the entry is
\* pushed and the history is updated
RecordUpgradeStartPush(c) ==
    /\ calls[c].pc = "awaitLast"
    /\ upgradeHistory' =
          pushUpgradeStart(historyAfterAwait(calls[c], upgradeHistory),
                           calls[c].timestamp, calls[c].info)
    /\ calls' = [calls EXCEPT ![c] =
            [@ EXCEPT !.pc = "awaitUpdate", !.wrote = Append(@, "upgradeHistory")]]
    /\ UNCHANGED <<ws, run, req, res, pm, globalState, disk, clock, resolver>>

\* updateUpgradeStatus(status) up to its await, or to its end when the history
\* is empty
UpdateUpgradeStatus(c, status) ==
    /\ Free(c)
    /\ LET history == getUpgradeHistory(upgradeHistory)
       IN  IF history # <<>>
           THEN /\ upgradeHistory' = setUpgradeStatus(history, status, clock)
                /\ calls' = [calls EXCEPT ![c] =
                        [NewCall(@, "updateUpgradeStatus") EXCEPT
                            !.pc = "awaitUpdate", !.status = status,
                            !.wrote = <<"upgradeHistory">>]]
           ELSE /\ upgradeHistory' = upgradeHistory
                /\ calls' = [calls EXCEPT ![c] =
                        [NewCall(@, "updateUpgradeStatus") EXCEPT
                            !.pc = "returning", !.status = status]]
    /\ UNCHANGED <<ws, run, req, res, pm, globalState, disk, clock, resolver>>

\* savePreference(key, value) up to its await
SavePreference(c, key, value) ==
    /\ Free(c)
    /\ globalState' = [globalState EXCEPT !.userPreferences[key] = value]
    /\ calls' = [calls EXCEPT ![c] =
            [NewCall(@, "savePreference") EXCEPT
                !.pc = "awaitUpdate", !.wrote = <<"userPreferences">>]]
    /\ UNCHANGED <<ws, upgradeHistory, run, req, res, pm, disk, clock, resolver>>

\* ignoredWarnings.includes(warningId)
isWarningIgnored(g, warningId) ==
    \E k \in 1..Len(g.ignoredWarnings) : g.ignoredWarnings[k] = warningId

\* ignoreWarning(warningId) up to its await, or to its end when the warning is
\* ignored already
IgnoreWarning(c, warningId) ==
    /\ Free(c)
    /\ IF ~isWarningIgnored(globalState, warningId)
       THEN /\ globalState' =
                  [globalState EXCEPT !.ignoredWarnings = Append(@, warningId)]
            /\ calls' = [calls EXCEPT ![c] =
                    [NewCall(@, "ignoreWarning") EXCEPT
                        !.pc = "awaitUpdate", !.wrote = <<"ignoredWarnings">>]]
       ELSE /\ globalState' = globalState
            /\ calls' = [calls EXCEPT ![c] =
                    [NewCall(@, "ignoreWarning") EXCEPT !.pc = "returning"]]
    /\ UNCHANGED <<ws, upgradeHistory, run, req, res, pm, disk, clock, resolver>>

\* clearState up to its first await: lastUpgradeTimestamp becomes undefined
ClearState(c) ==
    /\ Free(c)
    /\ globalState' = [globalState EXCEPT !.lastUpgradeTimestamp = Unset]
    /\ calls' = [calls EXCEPT ![c] =
            [NewCall(@, "clearState") EXCEPT
                !.pc = "clearHistory", !.wrote = <<"lastUpgradeTimestamp">>]]
    /\ UNCHANGED <<ws, upgradeHistory, run, req, res, pm, disk, clock, resolver>>

\* clearState after its first await: upgradeHistory becomes undefined
ClearHistory(c) ==
    /\ calls[c].pc = "clearHistory"
    /\ upgradeHistory' = <<>>
    /\ calls' = [calls EXCEPT ![c] =
            [@ EXCEPT !.pc = "clearPreferences", !.wrote = Append(@, "upgradeHistory")]]
    /\ UNCHANGED <<ws, run, req, res, pm, globalState, disk, clock, resolver>>

\* clearState after its second and its third await: userPreferences, then
\* ignoredWarnings become undefined
ClearRest(c) ==
    /\ calls[c].pc \in {"clearPreferences", "clearWarnings"}
    /\ IF calls[c].pc = "clearPreferences"
       THEN /\ globalState' =
                  [globalState EXCEPT
                      !.userPreferences = [key \in PreferenceKeys |-> "unset"]]
            /\ calls' = [calls EXCEPT ![c] =
                    [@ EXCEPT !.pc = "clearWarnings",
                              !.wrote = Append(@, "userPreferences")]]
       ELSE /\ globalState' = [globalState EXCEPT !.ignoredWarnings = <<>>]
            /\ calls' = [calls EXCEPT ![c] =
                    [@ EXCEPT !.pc = "awaitUpdate",
                              !.wrote = Append(@, "ignoredWarnings")]]
    /\ UNCHANGED <<ws, upgradeHistory, run, req, res, pm, disk, clock, resolver>>

\* the last update of a call settles, or the call had nothing to await: it returns
CallReturns(c) ==
    /\ calls[c].pc \in {"awaitUpdate", "returning"}
    /\ calls' = [calls EXCEPT ![c] = [IdleCall EXCEPT !.served = calls[c].served]]
    /\ UNCHANGED <<ws, upgradeHistory, run, req, res, pm, globalState, disk, clock, resolver>>

\* the history found at activation when the last session ended during an upgrade
HistoryInterrupted ==
    <<[HistoryAtActivation[1] EXCEPT !.status = "in-progress",
                                     !.completedAt = NotCompleted]>>

\* the extension is activated on a first installation or with a history
InitState ==
    /\ ws \in {w \in Workspaces : w.pom = "ok" /\ ~w.gradle /\ ~w.gradleKts}
    /\ upgradeHistory \in {<<>>, HistoryAtActivation, HistoryInterrupted}
    /\ run = [r \in Runs |-> IdleRun]
    /\ req = NoRequest
    /\ res = NoResult
    /\ pm = NewProgressManager
    /\ StateAtActivation

NextState ==
    \/ Tick
    \/ \E c \in Calls : \E info \in UpgradeInfos : RecordUpgradeStart(c, info)
    \/ \E c \in Calls : RecordUpgradeStartPush(c)
    \/ \E c \in Calls : \E status \in UpgradeStatuses : UpdateUpgradeStatus(c, status)
    \/ \E c \in Calls : \E key \in PreferenceKeys : \E value \in PreferenceValues :
          SavePreference(c, key, value)
    \/ \E c \in Calls : \E warningId \in Warnings : IgnoreWarning(c, warningId)
    \/ \E c \in Calls : ClearState(c)
    \/ \E c \in Calls : ClearHistory(c)
    \/ \E c \in Calls : ClearRest(c)
    \/ \E c \in Calls : CallReturns(c)

SpecState == InitState /\ [][NextState]_vars

(***************************************************************************)
(* The calls of DependencyResolver that go through getDependencyInfo,      *)
(* overlapping at their awaits.                                            *)
(***************************************************************************)
\* a call of the resolver can be made in slot c
FreeResolver(c) == resolver.calls[c].pc = "idle" /\ resolver.made < MaxStarted

\* getTransitiveDependencies(dependency) up to its await
GetTransitiveDependencies(c, dependency) ==
    /\ FreeResolver(c)
    /\ resolver' =
          getDependencyInfo(
              [resolver EXCEPT !.made = @ + 1,
                               !.calls[c] = [IdleResolverCall EXCEPT
                                                !.op = "getTransitiveDependencies"]],
              c, dependency)
    /\ UNCHANGED <<ws, upgradeHistory, run, req, res, pm, globalState, calls, disk, clock>>

\* validateDependencyCompatibility(dependencies) up to its first await, or to its
\* end when the list is empty
ValidateDependencyCompatibility(c, dependencies) ==
    /\ FreeResolver(c)
    /\ LET called == [resolver EXCEPT
                         !.made = @ + 1,
                         !.calls[c] = [IdleResolverCall EXCEPT
                                          !.op = "validateDependencyCompatibility"]]
       IN  resolver' =
             IF dependencies = <<>>
             THEN [called EXCEPT !.calls[c].pc = "returning"]
             ELSE getDependencyInfo(
                      [called EXCEPT !.calls[c].rest = Tail(dependencies)],
                      c, Head(dependencies))
    /\ UNCHANGED <<ws, upgradeHistory, run, req, res, pm, globalState, calls, disk, clock>>

\* fetchDependencyInfo has settled: getDependencyInfo sets the entry and returns
FetchSettles(c) ==
    /\ resolver.calls[c].pc = "awaitFetch"
    /\ resolver' = setDependencyInfo(resolver, c)
    /\ UNCHANGED <<ws, upgradeHistory, run, req, res, pm, globalState, calls, disk, clock>>

\* getDependencyInfo has settled: the caller takes the info and goes on, to the
\* next dependency of its loop or to its end
InfoSettles(c) ==
    /\ resolver.calls[c].pc = "awaitInfo"
    /\ LET taken == [resolver EXCEPT !.calls[c].results = @ + 1]
           rest == resolver.calls[c].rest
       IN  resolver' =
             IF rest = <<>>
             THEN [taken EXCEPT !.calls[c].pc = "returning"]
             ELSE getDependencyInfo([taken EXCEPT !.calls[c].rest = Tail(rest)],
                                    c, Head(rest))
    /\ UNCHANGED <<ws, upgradeHistory, run, req, res, pm, globalState, calls, disk, clock>>

\* the call of the resolver returns
ResolverReturns(c) ==
    /\ resolver.calls[c].pc = "returning"
    /\ resolver' = [resolver EXCEPT !.calls[c] = IdleResolverCall]
    /\ UNCHANGED <<ws, upgradeHistory, run, req, res, pm, globalState, calls, disk, clock>>

NextResolver ==
    \/ \E c \in Calls : \E dependency \in ResolverCoordinates :
          GetTransitiveDependencies(c, dependency)
    \/ \E c \in Calls : \E dependencies \in ValidatedLists :
          ValidateDependencyCompatibility(c, dependencies)
    \/ \E c \in Calls : FetchSettles(c)
    \/ \E c \in Calls : InfoSettles(c)
    \/ \E c \in Calls : ResolverReturns(c)

SpecResolver == Init /\ [][NextResolver]_vars

(***************************************************************************)
(* The calls of BackupService, with the files of the workspace folder      *)
(* modified in between.                                                    *)
(***************************************************************************)
\* createBackup(): the project files are copied to the backup named after now
CreateBackup ==
    /\ disk' = [backupProjectFiles(disk, clock) EXCEPT !.restored = 0, !.error = NoError]
    /\ UNCHANGED <<ws, upgradeHistory, run, req, res, pm, globalState, calls, clock, resolver>>

\* a file of the workspace folder is written or deleted
ModifyFile(file, content) ==
    /\ disk.work[file] # content
    /\ disk' = [disk EXCEPT !.work[file] = content, !.restored = 0]
    /\ UNCHANGED <<ws, upgradeHistory, run, req, res, pm, globalState, calls, clock, resolver>>

\* restoreBackup(backupTimestamp), 0 for no argument
RestoreBackup(backupTimestamp) ==
    /\ LET backupPath == getBackupPath(disk, backupTimestamp)
       IN  disk' =
             IF backupPath = 0
             THEN [disk EXCEPT !.restored = 0,
                               !.error = Err("No backup found to restore")]
             ELSE [restoreProjectFiles(disk, backupPath) EXCEPT
                       !.restored = backupPath, !.error = NoError]
    /\ UNCHANGED <<ws, upgradeHistory, run, req, res, pm, globalState, calls, clock, resolver>>

NextBackup ==
    \/ Tick
    \/ CreateBackup
    \/ \E file \in RelativePaths : \E content \in Contents \cup {NoFile} :
          ModifyFile(file, content)
    \/ \E backupTimestamp \in 0..MaxClock : RestoreBackup(backupTimestamp)

SpecBackup == Init /\ [][NextBackup]_vars

(***************************************************************************)
(* Properties of the command handler and of executeUpgrade (under Spec).   *)
(***************************************************************************)
IsPrefix(short, long) ==
    Len(short) <= Len(long) /\ \A k \in 1..Len(short) : short[k] = long[k]

\* C1: in every run of executeUpgrade the stages start in the order applyRecipes,
\* updateDependencies, fixBuildIssues, runTests, cveValidator.validate; a stage has
\* started only if the one before it has completed successfully, and at most one
\* stage of a run is in progress.
C1_StageOrder ==
    \A r \in Runs :
        LET rs == run[r]
        IN  /\ IsPrefix(rs.stageLog, Stages)
            /\ \A i \in StageIds : rs.stage[i] # "pending" <=> i <= Len(rs.stageLog)
            /\ \A i \in StageIds \ {1} : rs.stage[i] # "pending" => rs.stage[i - 1] = "done"
            /\ Cardinality({i \in StageIds : rs.stage[i] = "running"}) <= 1

\* cveValidator.validate is in progress in a run
C1_Witness == \E r \in Runs : run[r].stage[5] = "running"

\* C2: once the panel's answer to the plan is 'cancel', the run starts no stage of
\* executeUpgrade (no applyRecipes, updateDependencies or cveValidator.validate),
\* never reaches validateResults, shows no error notification, ends, and the
\* persisted upgradeHistory is as it was when the run started.
C2_CancelledPlan ==
    \A r \in Runs :
        run[r].firstVerdict = "cancel" =>
            /\ run[r].pc \in {"awaitDecision", "rejected"}
            /\ run[r].stageLog = <<>>
            /\ run[r].started = <<>>
            /\ run[r].summary = ""
            /\ run[r].notifications = <<>>
            /\ upgradeHistory = run[r].histAtStart

\* a run has ended after the user cancelled the plan
C2_Witness == \E r \in Runs : run[r].pc = "rejected" /\ run[r].firstVerdict = "cancel"

\* the transitions of the documented state diagram
DiagramEdges ==
    {<<"Idle", "Analyzing">>, <<"Analyzing", "PlanningUpgrade">>,
     <<"Analyzing", "Error">>, <<"PlanningUpgrade", "ExecutingUpgrade">>,
     <<"PlanningUpgrade", "Idle">>, <<"ExecutingUpgrade", "Validating">>,
     <<"ExecutingUpgrade", "Error">>, <<"Validating", "Complete">>,
     <<"Validating", "Error">>, <<"Error", "Idle">>, <<"Complete", "Idle">>}

\* C3: a run moves only along the transitions of the state diagram (Idle,
\* Analyzing, PlanningUpgrade, ExecutingUpgrade, Validating, Complete, with Error
\* entered only from Analyzing, ExecutingUpgrade or Validating and left only for
\* Idle, and PlanningUpgrade left for Idle on rejection); ExecutingUpgrade is
\* entered only after an 'approve' message, and Validating only after every stage
\* of executeUpgrade has succeeded.
C3_StateDiagram ==
    \A r \in Runs :
        LET rs == run[r]
        IN  /\ rs.trail[1] = "Idle"
            /\ \A k \in 1..(Len(rs.trail) - 1) :
                  <<rs.trail[k], rs.trail[k + 1]>> \in DiagramEdges
            /\ rs.trail[Len(rs.trail)] = phase(rs.pc)
            /\ (rs.pc = "executing" \/ rs.stageLog # <<>>) => rs.firstVerdict = "approve"
            /\ rs.pc \in {"validating", "complete"} =>
                  \A i \in StageIds : rs.stage[i] = "done"

\* a run failed in ExecutingUpgrade and is back at Idle
C3_Witness ==
    \E r \in Runs :
        run[r].trail = <<"Idle", "Analyzing", "PlanningUpgrade", "ExecutingUpgrade",
                         "Error", "Idle">>

\* a stage of the run has raised an error
Raised(rs) ==
    \/ \E i \in StageIds : rs.stage[i] = "failed"
    \/ rs.pc \notin {"idle", "analyzing"} /\ ~detectBuildSystem(ws).ok

\* C4: an error raised by a stage of a run is caught by the handler: the run is
\* at its Error outcome with exactly one notification 'Upgrade failed: <message>'
\* carrying the error's message, no stage is in progress, every stage after the
\* failed one was never started and no summary is shown; a run in which nothing
\* was raised shows no error notification.
C4_SingleCatchPoint ==
    \A r \in Runs :
        LET rs == run[r]
        IN  /\ Raised(rs) =>
                  /\ rs.pc = "error"
                  /\ rs.thrown.raised
                  /\ rs.notifications = <<"Upgrade failed: " \o rs.thrown.message>>
                  /\ \A i \in StageIds : rs.stage[i] # "running"
                  /\ \A i, j \in StageIds :
                        (rs.stage[i] = "failed" /\ i < j) => rs.stage[j] = "pending"
                  /\ ~rs.procRunning
                  /\ rs.summary = ""
            /\ (\E i \in StageIds : rs.stage[i] # "pending") => detectBuildSystem(ws).ok
            /\ ~Raised(rs) => (rs.notifications = <<>> /\ rs.pc # "error")
            /\ (rs.pc = "error" /\ ~detectBuildSystem(ws).ok) =>
                  rs.notifications = <<"Upgrade failed: No supported build system detected">>

\* updateDependencies failed in a run: the error notification is shown
C4_Witness ==
    \E r \in Runs :
        /\ run[r].stage[2] = "failed"
        /\ run[r].notifications =
              <<"Upgrade failed: Failed to update Maven dependencies: Unclosed root tag">>

InFlight(rs) == rs.pc # "idle"

\* C6: at no time are two start-upgrade runs in flight: an invocation made while
\* an earlier run has not finished does not proceed beside it.
C6_OneRunInFlight == Cardinality({r \in Runs : InFlight(run[r])}) <= 1

\* C13: in a workspace with none of pom.xml, build.gradle and build.gradle.kts,
\* analyzeProject fails with the error 'No supported build system detected' and
\* returns no ProjectInfo, the run has no plan, starts no stage, shows no summary
\* and ends at the handler's catch with that error.
C13_NoBuildSystem ==
    (ws.pom = "absent" /\ ~ws.gradle /\ ~ws.gradleKts) =>
        /\ ~analyzeProject(ws).ok
        /\ analyzeProject(ws).value = Undefined
        /\ analyzeProject(ws).error.message = "No supported build system detected"
        /\ \A r \in Runs :
              LET rs == run[r]
              IN  /\ rs.pc \in {"idle", "analyzing", "error"}
                  /\ rs.projectInfo = NoProjectInfo
                  /\ rs.plan = NoPlan
                  /\ rs.decision = "pending"
                  /\ rs.stageLog = <<>>
                  /\ rs.started = <<>>
                  /\ rs.summary = ""
                  /\ rs.pc = "error" =>
                        /\ rs.thrown = Err("No supported build system detected")
                        /\ rs.notifications =
                              <<"Upgrade failed: No supported build system detected">>

\* a run has ended at the handler's catch in a workspace without a manifest
C13_Witness ==
    /\ ws.pom = "absent" /\ ~ws.gradle /\ ~ws.gradleKts
    /\ \E r \in Runs : run[r].pc = "error" /\ run[r].thrown.raised

\* C27: the javaVersion of the plan that generatePlan makes of the ProjectInfo of
\* analyzeProject has a major number, and that number is at least 11.
C27_TargetAtLeast11 ==
    \A r \in Runs :
        run[r].pc \in {"awaitDecision", "executing", "validating", "complete"} =>
            LET major == ParseInt(Split(run[r].plan.javaVersion, ".")[1])
            IN  ~major.nan /\ major.val >= 11

(***************************************************************************)
(* The decision of the user (under SpecPanel).                             *)
(***************************************************************************)
\* C25: the decision of a run is the one of the first 'approve' or 'cancel' the
\* panel posted, whatever the panel posts later: the promise of showUpgradePlan
\* is pending before it and keeps its value after it, a run whose first verdict
\* is 'cancel' starts no stage, no run starts a stage twice, and a message with
\* another command leaves the decision as it is.
C25_FirstVerdictDecides ==
    \A r \in Runs :
        LET rs == run[r]
        IN  /\ rs.firstVerdict = "none" =>
                  /\ rs.decision = "pending"
                  /\ rs.pc \notin {"rejected", "executing", "validating", "complete"}
            /\ rs.firstVerdict = "approve" =>
                  /\ rs.decision = "approved"
                  /\ rs.pc # "rejected"
            /\ rs.firstVerdict = "cancel" =>
                  /\ rs.decision = "rejected"
                  /\ rs.pc \in {"awaitDecision", "rejected"}
                  /\ rs.stageLog = <<>>
            /\ \A j, k \in 1..Len(rs.stageLog) : rs.stageLog[j] = rs.stageLog[k] => j = k
            /\ \A command \in PanelCommands \ {"approve", "cancel"} :
                  onDidReceiveMessage(rs.decision, command) = rs.decision

\* the panel posted 'approve' and later 'cancel': the plan was executed, once
C25_Witness ==
    \E r \in Runs :
        /\ run[r].firstVerdict = "approve"
        /\ run[r].contradicted
        /\ run[r].pc = "complete"
        /\ Len(run[r].stageLog) = Len(Stages)

\* the panel posted 'cancel' and later 'approve': the handler returned in silence
C25_CancelWitness ==
    \E r \in Runs :
        /\ run[r].firstVerdict = "cancel"
        /\ run[r].contradicted
        /\ run[r].pc = "rejected"
        /\ run[r].notifications = <<>>

(***************************************************************************)
(* Termination of the command handler (under SpecLive).                    *)
(***************************************************************************)
\* the handler of invocation r has finished: silently after a rejection, with
\* the results summary or with an error notification
Finished(r) == run[r].pc \in {"rejected", "complete", "error"}

\* C24: every invocation of the start command eventually finishes, with a
\* results summary, an error notification or a silent return after rejection;
\* the wait for the user's decision in showUpgradePlan always ends, also when
\* the plan panel is closed.
C24_InvocationFinishes ==
    \A r \in Runs : (run[r].pc = "analyzing") ~> Finished(r)

\* the same for the invocations whose panel posts 'approve' or 'cancel'
C24_AnsweredFinishes ==
    \A r \in Runs : (run[r].firstVerdict # "none") ~> (Finished(r) \/ run[r].pc = "idle")

(***************************************************************************)
(* Properties of cancellation (under SpecProgress).                        *)
(***************************************************************************)
\* C7: a cancellation request made while a stage of executeUpgrade or a task of
\* ProgressManager.nextStep is in flight does not interrupt it: the request
\* leaves the stage (the task) in flight, which then ends only by completing or
\* by failing.
C7_CancelDoesNotInterrupt ==
    [][/\ \A r \in Runs :
             (~run[r].cancelRequested /\ run'[r].cancelRequested) =>
                 /\ run'[r].stage = run[r].stage
                 /\ run'[r].procRunning = run[r].procRunning
                 /\ run'[r].pc = run[r].pc
                 /\ run'[r].started = run[r].started
       /\ \A r \in Runs : \A i \in StageIds :
             (run[r].cancelRequested /\ run[r].stage[i] = "running"
                 /\ run'[r].stage[i] # "running") =>
                 \/ run'[r].stage[i] = "done" /\ ~run'[r].thrown.raised
                 \/ run'[r].stage[i] = "failed" /\ run'[r].thrown.raised
       /\ (pm.token # "cancelled" /\ pm'.token = "cancelled") =>
             /\ pm'.pc = pm.pc
             /\ pm'.taskLog = pm.taskLog
             /\ pm'.currentStepIndex = pm.currentStepIndex
       /\ (pm.token = "cancelled" /\ pm.pc = "task" /\ pm'.pc # "task") =>
             \/ pm'.pc = "loop" /\ pm'.i = pm.i + 1
             \/ pm'.pc = "failed" /\ pm'.error.raised
      ]_vars

\* cancellation was requested and the process of a recipe is still running
C7_Witness ==
    \E r \in Runs :
        /\ run[r].cancelRequested
        /\ run[r].stage[1] = "running"
        /\ run[r].procRunning

\* the token was cancelled and the task of a step is still in flight
C7_TaskWitness == pm.token = "cancelled" /\ pm.pc = "task"

\* a step of the ProgressManager starts in this step: its task is called
stepStarts == pm.pc = "loop" /\ pm'.pc = "task"

\* C21: within a begin(), a step is started only at a moment when isCancelled()
\* is false, and is the step whose task is called; once the token of that
\* begin() is cancelled the list of the tasks called does not grow any more, so
\* the steps after the cancellation point are never run.
C21_NoStepAfterCancel ==
    [][/\ stepStarts => ~isCancelled(pm) /\ ~isCancelled(pm')
       /\ (isCancelled(pm) /\ isCancelled(pm')) => pm'.taskLog = pm.taskLog
       /\ (isCancelled(pm) /\ pm.pc = "loop") => pm'.pc \in {"loop", "done"}]_vars

\* the token was cancelled during the first of several steps: runAllSteps has
\* ended and the later steps were not run
C21_Witness ==
    /\ isCancelled(pm)
    /\ pm.pc = "done"
    /\ Len(pm.steps) >= 2
    /\ pm.begins = 1
    /\ pm.taskLog = <<pm.steps[1]>>

\* the tasks called so far are the first steps of the list, in list order
InListOrder(p) ==
    /\ Len(p.taskLog) <= Len(p.steps)
    /\ \A k \in 1..Len(p.taskLog) : p.taskLog[k] = p.steps[k]

\* what the claim says of the begin() that p is in or has ended
RunsTheSteps(p) ==
    /\ InListOrder(p)
    /\ (p.pc = "done" /\ ~isCancelled(p)) => p.taskLog = p.steps
    /\ p.pc = "failed" => p.error.raised
    /\ p.currentStepIndex >= -1
    /\ p.currentStepIndex <= Len(p.steps)

\* C22: after initializeUpgrade(steps), in every begin() the tasks called are
\* the first steps of the list in list order, each once; a begin() that ends
\* without cancellation has called them all; when a task fails begin() ends
\* with the error and no later task is called; and currentStepIndex is at
\* least -1 and at most steps.length.
C22_BeginRunsSteps == pm.begins >= 1 => RunsTheSteps(pm)

\* the same for the first begin() after initializeUpgrade only
C22_FirstBegin == pm.begins = 1 => RunsTheSteps(pm)

\* a first begin() has run two steps to the end
C22_FirstBeginWitness ==
    /\ pm.begins = 1
    /\ pm.pc = "done"
    /\ ~isCancelled(pm)
    /\ Len(pm.steps) = 2
    /\ pm.taskLog = pm.steps

(***************************************************************************)
(* Properties of the planner and of the resolver (under SpecPlan).         *)
(***************************************************************************)
HasPrefix(str, prefix) ==
    Len(str) >= Len(prefix) /\ SubSeq(str, 1, Len(prefix)) = prefix

\* a generatePlan call has returned
PlanReturned == req.op = "generatePlan" /\ res.done

\* the major number of a version string: the integer its first segment starts with
MajorOf(version) == ParseInt(Split(version, ".")[1])

\* C8: for a current Java version whose major number is below 11 the plan's target
\* is "11", for a major in [11,17) it is "17", for a major in [17,21) it is "21",
\* and for a major of 21 or more it is the input itself, which the function maps
\* to itself again.
C8_TargetJavaVersion ==
    PlanReturned =>
        LET current == req.info.currentJavaVersion
            major == MajorOf(current)
            target == res.plan.javaVersion
        IN  ~major.nan =>
                /\ major.val < 11 => target = <<"1", "1">>
                /\ (11 <= major.val /\ major.val < 17) => target = <<"1", "7">>
                /\ (17 <= major.val /\ major.val < 21) => target = <<"2", "1">>
                /\ major.val >= 21 =>
                       /\ target = current
                       /\ generatePlan([req.info EXCEPT !.currentJavaVersion = target])
                              .javaVersion = target

\* a plan was made for Java 22: the target is 22
C8_Witness ==
    /\ PlanReturned
    /\ req.info.currentJavaVersion = <<"2", "2">>
    /\ res.plan.javaVersion = <<"2", "2">>

\* C9: the recipes of a plan are a Java-version-upgrade recipe, then
\* UpgradeSpringBoot_3_2 exactly when a Spring Boot version was detected, then
\* JavaModernizer and UpgradeJavaVersion, and nothing else.
C9_Recipes ==
    PlanReturned =>
        LET recipes == res.plan.recipes
            detected == req.info.springBootVersion \notin {Undefined, <<>>}
            n == Len(recipes)
        IN  /\ n = IF detected THEN 4 ELSE 3
            /\ HasPrefix(recipes[1], "org.openrewrite.java.migrate.UpgradeToJava")
            /\ detected <=>
                  \E k \in 1..n :
                      recipes[k] = "org.openrewrite.java.spring.boot3.UpgradeSpringBoot_3_2"
            /\ detected =>
                  recipes[2] = "org.openrewrite.java.spring.boot3.UpgradeSpringBoot_3_2"
            /\ recipes[n - 1] = "org.openrewrite.java.migrate.JavaModernizer"
            /\ recipes[n] = "org.openrewrite.java.migrate.UpgradeJavaVersion"

\* a plan was made for a project with Spring Boot 2.7: four recipes
C9_Witness ==
    /\ PlanReturned
    /\ req.info.springBootVersion = <<"2", ".", "7">>
    /\ Len(res.plan.recipes) = 4

\* the positions of the dependencies for which a latest version is reported that
\* exists and differs from the declared one
Outdated(deps, latest) ==
    {i \in 1..Len(deps) : latest[i] # Null /\ latest[i] # deps[i].version}

\* the k-th smallest member of a set of integers
Nth(S, k) == CHOOSE i \in S : Cardinality({j \in S : j < i}) = k - 1

\* the updates are the outdated dependencies in the order of the list, each with
\* its declared version and the reported latest version
UpdatesMatch(updates, deps, latest) ==
    /\ Len(updates) = Cardinality(Outdated(deps, latest))
    /\ \A k \in 1..Len(updates) :
          LET i == Nth(Outdated(deps, latest), k)
          IN  /\ updates[k].groupId = deps[i].groupId
              /\ updates[k].artifactId = deps[i].artifactId
              /\ updates[k].fromVersion = deps[i].version
              /\ updates[k].toVersion = latest[i]

\* C10: a plan's dependencyUpdates holds an entry for a dependency exactly when the
\* resolver reports a latest version that exists and differs from the declared
\* version, with fromVersion the declared and toVersion the reported version, in
\* the order of the dependency list; the same holds of what suggestUpdates returns.
C10_DependencyUpdates ==
    /\ PlanReturned =>
          UpdatesMatch(res.plan.dependencyUpdates, req.info.dependencies,
                       [i \in 1..Len(req.info.dependencies) |->
                           findLatestVersion(req.info.dependencies[i])])
    /\ (req.op = "suggestUpdates" /\ res.done) =>
          UpdatesMatch([k \in 1..Len(res.updates) |->
                           [groupId |-> res.updates[k].dependency.groupId,
                            artifactId |-> res.updates[k].dependency.artifactId,
                            fromVersion |-> res.updates[k].dependency.version,
                            toVersion |-> res.updates[k].suggestedVersion]],
                       req.deps,
                       [i \in 1..Len(req.deps) |-> resolveLatestVersion(req.replies[i])])

\* a plan was made for two dependencies
C10_Witness ==
    /\ PlanReturned
    /\ Len(req.info.dependencies) = 2
    /\ req.info.dependencies[1].version # req.info.dependencies[2].version

\* suggestUpdates returned one update for two dependencies, the second one's
C10_SuggestWitness ==
    /\ req.op = "suggestUpdates" /\ res.done
    /\ Len(req.deps) = 2
    /\ Len(res.updates) = 1
    /\ res.updates[1].dependency = req.deps[2]

\* the coordinates of the entries of a list of updates, in order
Coordinates(updates) ==
    [k \in 1..Len(updates) |-> <<updates[k].groupId, updates[k].artifactId>>]

C12_Table ==
    [k \in {"1.5", "2.0", "2.1", "2.2", "2.3", "2.4", "2.5", "2.6", "2.7"} |->
        IF k = "2.7" THEN "3.2.0" ELSE "2.7.18"]

\* C12: the plan's Spring Boot version is the table's value when the major.minor of
\* the detected version is a key of the lookup table, the fallback "3.2.0" when it
\* is not, and no version when no Spring Boot version was detected.
C12_SpringBootVersion ==
    PlanReturned =>
        LET detected == req.info.springBootVersion
            target == res.plan.springBootVersion
        IN  IF detected \in {Undefined, <<>>} THEN target = Undefined
            ELSE LET segments == Split(detected, ".")
                     majorMinor ==
                         IF Len(segments) = 1 THEN Str(segments[1])
                         ELSE Str(segments[1]) \o "." \o Str(segments[2])
                 IN  IF majorMinor \in DOMAIN C12_Table
                     THEN target = Chars(C12_Table[majorMinor])
                     ELSE target = Chars("3.2.0")

\* plans were made for a version of the table and for one that is not in it
C12_TableWitness ==
    /\ PlanReturned
    /\ req.info.springBootVersion = <<"2", ".", "5", ".">>
    /\ res.plan.springBootVersion = Chars("2.7.18")

C12_FallbackWitness ==
    /\ PlanReturned
    /\ req.info.springBootVersion = <<"3", ".", "1">>
    /\ res.plan.springBootVersion = Chars("3.2.0")

(***************************************************************************)
(* Properties of DependencyManager and of DependencyResolver (under        *)
(* SpecServices).                                                          *)
(***************************************************************************)
\* an updateDependencies call has settled
UpdateSettled == req.op = "updateDependencies" /\ res.done

\* C14: detection answers maven whenever pom.xml exists, whatever Gradle files
\* exist, and gradle only when pom.xml is absent and build.gradle or
\* build.gradle.kts exists; ProjectAnalyzer and DependencyManager give the same
\* answer for the same workspace; and updateDependencies writes no file but the
\* manifest of the detected build system, every other manifest staying as it was.
C14_BuildSystemDetection ==
    LET analyzer == detectBuildSystem(ws)
        manager == DependencyManager_detectBuildSystem(ws)
        pomExists == ws.pom # "absent"
        gradleExists == ws.gradle \/ ws.gradleKts
        own == IF pomExists THEN {"pom"}
               ELSE IF gradleExists THEN {"gradle", "gradleKts"} ELSE {}
    IN  /\ analyzer.ok = manager.ok
        /\ analyzer.ok => analyzer.value = manager.value
        /\ pomExists => (analyzer.ok /\ analyzer.value = "maven")
        /\ (~pomExists /\ gradleExists) => (analyzer.ok /\ analyzer.value = "gradle")
        /\ (analyzer.ok /\ analyzer.value = "gradle") => (~pomExists /\ gradleExists)
        /\ (~pomExists /\ ~gradleExists) => ~analyzer.ok
        /\ UpdateSettled =>
              /\ res.written \subseteq own
              /\ \A path \in {"pom", "gradle", "gradleKts"} \ own :
                    res.files[path] = req.files[path]
              /\ \A path \in {"pom", "gradle", "gradleKts"} \ res.written :
                    res.files[path] = req.files[path]

\* pom.xml was rewritten in a workspace that also has the two Gradle files
C14_Witness ==
    /\ UpdateSettled
    /\ ws.pom = "ok" /\ ws.gradle /\ ws.gradleKts
    /\ res.written = {"pom"}
    /\ res.files.pom # req.files.pom
    /\ res.files.gradle = req.files.gradle
    /\ res.files.gradleKts = req.files.gradleKts

\* build.gradle.kts was rewritten in a workspace that also has build.gradle
C14_GradleWitness ==
    /\ UpdateSettled
    /\ ws.pom = "absent" /\ ws.gradle /\ ws.gradleKts
    /\ res.written = {"gradleKts"}

\* the distinct versions with which a groupId:artifactId occurs in a list
VersionsOf(dependencies, key) ==
    {dependencies[i].version : i \in {j \in 1..Len(dependencies) :
        <<dependencies[j].groupId, dependencies[j].artifactId>> = key}}

\* the groupId:artifactId that occur in a list with more than one version
Conflicting(dependencies) ==
    {key \in {<<dependencies[i].groupId, dependencies[i].artifactId>> :
                 i \in 1..Len(dependencies)} :
        Cardinality(VersionsOf(dependencies, key)) > 1}

\* C15: checkConflicts returns one entry for each groupId:artifactId that occurs
\* in the list with more than one distinct version, the entry listing each of
\* these versions once, and no entry for any other groupId:artifactId.
C15_CheckConflicts ==
    (req.op = "checkConflicts" /\ res.done) =>
        /\ ~res.error.raised
        /\ Len(res.conflicts) = Cardinality(Conflicting(req.deps))
        /\ \A k \in 1..Len(res.conflicts) :
              LET conflict == res.conflicts[k]
                  key == <<conflict.groupId, conflict.artifactId>>
              IN  /\ key \in Conflicting(req.deps)
                  /\ Len(conflict.versions) = Cardinality(VersionsOf(req.deps, key))
                  /\ {conflict.versions[i] : i \in 1..Len(conflict.versions)}
                         = VersionsOf(req.deps, key)
                  /\ \A j \in 1..Len(res.conflicts) :
                        <<res.conflicts[j].groupId, res.conflicts[j].artifactId>> = key
                            => j = k

\* the same statement for the build that compiles the loop to an indexed loop, in
\* which checkConflicts raises no error
C15_IndexedLoop ==
    (req.op = "checkConflicts" /\ res.done /\ req.target = "indexed") =>
        Len(res.conflicts) = Cardinality(Conflicting(req.deps))

\* the manifest updateDependencies works on: that of the detected build system
DetectedManifest(files) ==
    IF files.pom.exists THEN "pom"
    ELSE IF files.gradleKts.exists THEN "gradleKts" ELSE "gradle"

\* the manifest declares the update's groupId:artifactId once, at fromVersion
DeclaresOnce(entries, update) ==
    LET same == {k \in 1..Len(entries) :
                    /\ entries[k].groupId = update.groupId
                    /\ entries[k].artifactId = update.artifactId}
    IN  /\ Cardinality(same) = 1
        /\ \A k \in same : entries[k].version = update.fromVersion

\* reading after again gives before with the update's dependency at toVersion
RoundTrip(before, after, update) ==
    /\ Len(after) = Len(before)
    /\ \A k \in 1..Len(before) :
          IF /\ before[k].groupId = update.groupId
             /\ before[k].artifactId = update.artifactId
          THEN /\ after[k].groupId = update.groupId
               /\ after[k].artifactId = update.artifactId
               /\ after[k].version = update.toVersion
          ELSE after[k] = before[k]

\* C17: when the manifest of the workspace declares the dependency of an update
\* once, at the update's fromVersion, updateDependencies succeeds and reading the
\* manifest again gives toVersion for that dependency and every other entry as
\* it was; for pom.xml, build.gradle and build.gradle.kts alike.
C17_RoundTrip ==
    (UpdateSettled /\ Len(req.updates) = 1) =>
        LET path == DetectedManifest(req.files)
            before == req.files[path]
        IN  (before.parsable /\ DeclaresOnce(before.entries, req.updates[1])) =>
                /\ ~res.error.raised
                /\ RoundTrip(before.entries, res.files[path].entries, req.updates[1])

\* the same for pom.xml alone
C17_MavenRoundTrip ==
    (UpdateSettled /\ Len(req.updates) = 1 /\ DetectedManifest(req.files) = "pom") =>
        ((req.files.pom.parsable /\ DeclaresOnce(req.files.pom.entries, req.updates[1]))
            => /\ ~res.error.raised
               /\ RoundTrip(req.files.pom.entries, res.files.pom.entries,
                            req.updates[1]))

\* a pom.xml with two dependencies was rewritten: g:a is at 2.0, g:b as it was
C17_MavenWitness ==
    /\ UpdateSettled
    /\ req.updates = <<UpdateA>>
    /\ Len(req.files.pom.entries) = 2
    /\ DeclaresOnce(req.files.pom.entries, UpdateA)
    /\ res.files.pom # req.files.pom

\* a resolveLatestVersion call has settled
ResolveSettled == req.op = "resolveLatestVersion" /\ res.done

\* what the registry holds for the groupId and artifactId of the call's dependency
RegistryReply == req.registry[<<req.deps[1].groupId, req.deps[1].artifactId>>]

C18_FailureWitness == ResolveSettled /\ ~RegistryReply.ok /\ res.version = Null

(***************************************************************************)
(* Properties of WorkspaceStateManager (under SpecState).                  *)
(***************************************************************************)
\* the recordUpgradeStart calls that push their entry in this step
pushing == {c \in Calls : calls[c].pc = "awaitLast" /\ calls'[c].pc = "awaitUpdate"}

\* the clearState calls that update upgradeHistory in this step
clearing == {c \in Calls : calls[c].pc = "clearHistory" /\ calls'[c].pc = "clearPreferences"}

\* entry is the upgrade that was recorded as other: same timestamp and UpgradeInfo
SameUpgrade(entry, other) ==
    /\ entry.timestamp = other.timestamp
    /\ entry.fromVersion = other.fromVersion
    /\ entry.toVersion = other.toVersion
    /\ entry.buildTool = other.buildTool
    /\ entry.projectPath = other.projectPath

\* entry is the upgrade that call records: the timestamp and the info of the call
RecordedBy(entry, call) ==
    /\ entry.timestamp = call.timestamp
    /\ entry.fromVersion = call.info.fromVersion
    /\ entry.toVersion = call.info.toVersion
    /\ entry.buildTool = call.info.buildTool
    /\ entry.projectPath = call.info.projectPath

\* C16: across every interleaving of recordUpgradeStart, updateUpgradeStatus,
\* savePreference, ignoreWarning and clearState calls, a step that is not the
\* history update of a clearState keeps every entry of upgradeHistory at its
\* position and adds exactly one entry for each recordUpgradeStart that
\* pushes in the step, that entry being 'in-progress' and carrying the
\* timestamp and the info of its call; only the history update of a
\* clearState empties the list.
C16_HistoryOnlyGrows ==
    [][IF clearing # {}
       THEN upgradeHistory' = <<>>
       ELSE /\ Len(upgradeHistory') = Len(upgradeHistory) + Cardinality(pushing)
            /\ \A k \in 1..Len(upgradeHistory) :
                  SameUpgrade(upgradeHistory'[k], upgradeHistory[k])
            /\ \A k \in (Len(upgradeHistory) + 1)..Len(upgradeHistory') :
                  /\ upgradeHistory'[k].status = "in-progress"
                  /\ \E c \in pushing : RecordedBy(upgradeHistory'[k], calls[c])]_vars

\* two recordUpgradeStart calls overlap: the second call was made, and pushed
\* its entry, while the first was at its first await; both entries are in the
\* history after the one found at activation
C16_Witness ==
    /\ \A c \in {1, 2} : calls[c].op = "recordUpgradeStart" /\ calls[c].pc = "awaitUpdate"
    /\ calls[1].timestamp < calls[2].timestamp
    /\ Len(upgradeHistory) = 1 + 2
    /\ SameUpgrade(upgradeHistory[1], HistoryAtActivation[1])
    /\ upgradeHistory[Len(upgradeHistory) - 1].timestamp = calls[2].timestamp
    /\ upgradeHistory[Len(upgradeHistory)].timestamp = calls[1].timestamp
    /\ \A k \in {Len(upgradeHistory) - 1, Len(upgradeHistory)} :
          upgradeHistory[k].status = "in-progress"

\* the calls of updateUpgradeStatus made in this step
updating ==
    {c \in Calls : calls[c].pc = "idle" /\ calls'[c].op = "updateUpgradeStatus"}

\* C20: a call updateUpgradeStatus(s) on a history that is not empty sets the
\* status of the most recent entry to s and its completedAt to the time of the
\* call, and writes the key upgradeHistory only; every other entry, every
\* other field of the most recent entry, lastUpgradeTimestamp,
\* userPreferences and ignoredWarnings are as before.  On an empty history
\* the call updates no key and the history stays empty.
C20_UpdateUpgradeStatus ==
    [][\A c \in updating :
          /\ globalState' = globalState
          /\ Len(upgradeHistory') = Len(upgradeHistory)
          /\ \A k \in 1..(Len(upgradeHistory) - 1) : upgradeHistory'[k] = upgradeHistory[k]
          /\ IF upgradeHistory = <<>>
             THEN calls'[c].wrote = <<>>
             ELSE LET last == upgradeHistory[Len(upgradeHistory)]
                      lastAfter == upgradeHistory'[Len(upgradeHistory)]
                  IN  /\ calls'[c].wrote = <<"upgradeHistory">>
                      /\ lastAfter = [last EXCEPT !.status = calls'[c].status,
                                                  !.completedAt = clock]]_vars

\* updateUpgradeStatus('failed') has just been called while an earlier upgrade
\* was still in progress: the most recent entry is 'failed' and stamped, the
\* earlier one is untouched
C20_Witness ==
    /\ \E c \in Calls :
          /\ calls[c].op = "updateUpgradeStatus"
          /\ calls[c].pc = "awaitUpdate"
          /\ calls[c].status = "failed"
          /\ calls[c].wrote = <<"upgradeHistory">>
    /\ Len(upgradeHistory) >= 2
    /\ upgradeHistory[Len(upgradeHistory)].status = "failed"
    /\ upgradeHistory[Len(upgradeHistory)].completedAt = clock
    /\ upgradeHistory[Len(upgradeHistory) - 1].status = "in-progress"
    /\ upgradeHistory[Len(upgradeHistory) - 1].completedAt = NotCompleted

\* updateUpgradeStatus has been called on an empty history: it returns having
\* updated no key
C20_EmptyWitness ==
    /\ upgradeHistory = <<>>
    /\ \E c \in Calls :
          /\ calls[c].op = "updateUpgradeStatus"
          /\ calls[c].pc = "returning"
          /\ calls[c].wrote = <<>>

(***************************************************************************)
(* Properties of BackupService (under SpecBackup).                         *)
(***************************************************************************)
\* C19: when restoreBackup has returned, by a timestamp or by default from the
\* most recent backup, every file that createBackup copied into that backup
\* has in the workspace folder the content it has in the backup, whatever was
\* done to the workspace folder after the backup was made.
C19_RestoreUndoes ==
    disk.restored # 0 =>
        \A file \in RelativePaths :
            disk.backups[disk.restored][file] # NoFile =>
                disk.work[file] = disk.backups[disk.restored][file]

C23_ParseWitness ==
    /\ UpdateSettled
    /\ res.error.raised
    /\ req.files.pom = Malformed
    /\ res.files = req.files

(***************************************************************************)
(* More properties of the planner (under SpecPlan).                        *)
(***************************************************************************)
\* C26: the first recipe of a plan is 'org.openrewrite.java.migrate.UpgradeToJava'
\* followed by exactly the javaVersion the same plan carries.
C26_JavaRecipeNamesTarget ==
    PlanReturned =>
        res.plan.recipes[1] =
            "org.openrewrite.java.migrate.UpgradeToJava" \o Str(res.plan.javaVersion)

\* the major, minor and patch numbers of a version all parse
Numeric(parsed) == ~parsed.major.nan /\ ~parsed.minor.nan /\ ~parsed.patch.nan

\* version a is at least version b by major, then minor, then patch number
AtLeast(a, b) ==
    \/ a.major.val > b.major.val
    \/ a.major.val = b.major.val /\ a.minor.val > b.minor.val
    \/ a.major.val = b.major.val /\ a.minor.val = b.minor.val /\ a.patch.val >= b.patch.val

\* C28: for every detected Spring Boot version with numeric major, minor and
\* patch, the plan's Spring Boot version is greater than or equal to it by
\* major, minor and patch number: the planner proposes no downgrade.
C28_NoSpringDowngrade ==
    (PlanReturned /\ req.info.springBootVersion \notin {Undefined, <<>>}) =>
        LET detected == parseVersion(req.info.springBootVersion)
            target == parseVersion(res.plan.springBootVersion)
        IN  Numeric(detected) => (Numeric(target) /\ AtLeast(target, detected))

(***************************************************************************)
(* The cache of DependencyResolver (under SpecResolver).                   *)
(***************************************************************************)
\* C29: for each coordinate a DependencyResolver calls fetchDependencyInfo at
\* most once in its lifetime, also when getTransitiveDependencies and
\* validateDependencyCompatibility calls for the same coordinate overlap at
\* their awaits.
C29_FetchedAtMostOnce == \A key \in ResolverKeys : resolver.fetches[key] <= 1

====
